---- MODULE Spec2Model ----
(***************************************************************************)
(* Constrained Device Application (cda-python-components): the             *)
(* DeviceDataManager coordinator, its three latest-value caches, the       *)
(* threshold control rule, the ActuatorAdapterManager command router, the   *)
(* MqttClientConnector, the two telemetry managers and the coordinator's   *)
(* start/stop lifecycle.                                                   *)
(***************************************************************************)
EXTENDS Integers, Sequences, FiniteSets, Bags, TLC

VARIABLES
    handleTempChangeOnDevice,   \* DeviceDataManager.handleTempChangeOnDevice
    triggerHvacTempFloor,       \* DeviceDataManager.triggerHvacTempFloor
    triggerHvacTempCeiling,     \* DeviceDataManager.triggerHvacTempCeiling
    mqttClient,                 \* DeviceDataManager.mqttClient is not None
    sysPerfMgr,                 \* DeviceDataManager.sysPerfMgr is not None
    sensorAdapterMgr,           \* DeviceDataManager.sensorAdapterMgr is not None
    locationID,                 \* ActuatorAdapterManager.locationID
    humidifierActuator,         \* ActuatorAdapterManager.humidifierActuator
    hvacActuator,               \* ActuatorAdapterManager.hvacActuator
    ledDisplayActuator,         \* ActuatorAdapterManager.ledDisplayActuator
    humidityAdapter,            \* SensorAdapterManager.humidityAdapter
    pressureAdapter,            \* SensorAdapterManager.pressureAdapter
    tempAdapter,                \* SensorAdapterManager.tempAdapter
    latestSensorDataCache,      \* DeviceDataManager.latestSensorDataCache
    latestActuatorDataCache,    \* DeviceDataManager.latestActuatorDataCache
    latestSystemPerfDataCache,  \* DeviceDataManager.latestSystemPerfDataCache
    op,                         \* the operation most recently called
    arg,                        \* its argument
    ret,                        \* its return value
    sent,                       \* commands it handed to sendActuatorCommand
    invoked,                    \* backend updateActuator calls it caused
    published,                  \* publishMessage calls it caused
    prevIssued,                 \* the command words of sent before the call
    connection,                 \* state of the paho client MqttClientConnector.mc
    subscriptions,              \* topics subscribed in the client's broker session
    isStarted,                  \* SystemPerformanceManager.isStarted
    running,                    \* SensorAdapterManager.scheduler.running
    steps,                      \* calls the operation made on its collaborators, in order
    forwarded,                  \* readings handleTelemetry passed to the listener
    delivered,                  \* handleIncomingMessage calls onMessage made
    repeat,                     \* consecutive calls of the same lifecycle operation
    due,                        \* run times of each job passed and not yet processed
    executing,                  \* executions of each job running in the worker threads
    mainThread,                 \* where the thread calling stopManager is
    served,                     \* polls the sensor backends have answered
    coapClient,                 \* CoapClientConnector.coapClient is a HelperClient, not None
    dataMsgListener,            \* CoapClientConnector.dataMsgListener is set
    observeRequests,            \* CoapClientConnector.observeRequests, its keys
    observing                   \* resources the HelperClient holds an observe callback for

settings == <<handleTempChangeOnDevice, triggerHvacTempFloor, triggerHvacTempCeiling,
              mqttClient, sysPerfMgr, sensorAdapterMgr, locationID,
              humidifierActuator, hvacActuator, ledDisplayActuator,
              humidityAdapter, pressureAdapter, tempAdapter>>
coap   == <<coapClient, dataMsgListener, observeRequests, observing>>
\* what no operation of the coordinator or of its managers changes
config == <<settings, coap>>
caches == <<latestSensorDataCache, latestActuatorDataCache, latestSystemPerfDataCache>>
call   == <<op, arg, ret, sent, invoked, published, prevIssued>>
lifecycle == <<connection, subscriptions, isStarted, running>>
trace  == <<steps, forwarded, delivered, repeat>>
sched  == <<due, executing, mainThread, served>>
vars   == <<config, caches, call, lifecycle, trace, sched>>

(***************************************************************************)
(* Python values.                                                          *)
(***************************************************************************)
None     == [isNone |-> TRUE]
RetTrue  == [bool |-> TRUE]
RetFalse == [bool |-> FALSE]
NullName == "<null>"
\* the exception a call raised
Raised   == [raised |-> TRUE]
\* Python truthiness of a str-or-None value
Truthy(s) == s # "" /\ s # NullName

(***************************************************************************)
(* ConfigConst symbols used by the code.                                   *)
(***************************************************************************)
TEMP_SENSOR_TYPE          == "TEMP_SENSOR_TYPE"
HUMIDITY_SENSOR_TYPE      == "HUMIDITY_SENSOR_TYPE"
PRESSURE_SENSOR_TYPE      == "PRESSURE_SENSOR_TYPE"
HVAC_ACTUATOR_TYPE        == "HVAC_ACTUATOR_TYPE"
HUMIDIFIER_ACTUATOR_TYPE  == "HUMIDIFIER_ACTUATOR_TYPE"
LED_DISPLAY_ACTUATOR_TYPE == "LED_DISPLAY_ACTUATOR_TYPE"
HVAC_ACTUATOR_NAME        == "HVAC_ACTUATOR_NAME"
COMMAND_ON                == "COMMAND_ON"
COMMAND_OFF               == "COMMAND_OFF"
NOT_SET                   == "Not Set"
SYSTEM_PERF_NAME          == "SYSTEM_PERF_NAME"
CDA_SENSOR_MSG_RESOURCE            == "CDA_SENSOR_MSG_RESOURCE"
CDA_ACTUATOR_RESPONSE_MSG_RESOURCE == "CDA_ACTUATOR_RESPONSE_MSG_RESOURCE"
CDA_SYSTEM_PERF_MSG_RESOURCE       == "CDA_SYSTEM_PERF_MSG_RESOURCE"

\* states of the paho client MqttClientConnector.mc
CS_NEW          == "new"
CS_FAILED       == "connect_failed"
CS_CONNECTED    == "connected"
CS_DISCONNECTED == "disconnected"

DefaultTempFloor   == 18
DefaultTempCeiling == 20

(***************************************************************************)
(* Bounds of the model.                                                    *)
(***************************************************************************)
TempMargin == 1
MaxUtil    == 1

DeviceLocation == "constraineddevice001"
OtherLocation  == "constraineddevice002"
Locations      == {DeviceLocation, OtherLocation}

Temps          == (DefaultTempFloor - TempMargin)..(DefaultTempCeiling + TempMargin)
FloorChoices   == {DefaultTempFloor, DefaultTempFloor + 1}
CeilingChoices == {DefaultTempCeiling - 1, DefaultTempCeiling}
StatusCodes    == {0, -1}
SensorTypes    == {TEMP_SENSOR_TYPE, HUMIDITY_SENSOR_TYPE, PRESSURE_SENSOR_TYPE}
ActuatorTypes  == {HVAC_ACTUATOR_TYPE, HUMIDIFIER_ACTUATOR_TYPE,
                   LED_DISPLAY_ACTUATOR_TYPE, "UNKNOWN_ACTUATOR_TYPE"}

(***************************************************************************)
(* Data records.                                                           *)
(***************************************************************************)
SensorData(name, typeID, loc, value) ==
    [name |-> name, typeID |-> typeID, locationID |-> loc, value |-> value]

SystemPerformanceData(name, cpu, mem) ==
    [name |-> name, cpuUtil |-> cpu, memUtil |-> mem]

\* ActuatorData(typeID = t): every other field at its default
ActuatorData(typeID) ==
    [name |-> NOT_SET, typeID |-> typeID, locationID |-> NOT_SET,
     command |-> COMMAND_OFF, value |-> 0, isResponse |-> FALSE, statusCode |-> 0]

(***************************************************************************)
(* DataUtil: object -> JSON text.  The text is kept as the object's        *)
(* dictionary after the textual replacements of _generateJsonData.         *)
(***************************************************************************)
ReplaceQuotes(s) ==
    CASE s = "it's"  -> "it\"s"
      [] s = "True"  -> "true"
      [] s = "False" -> "false"
      [] OTHER       -> s

\* a string value that puts an unescaped double quote into the text
HasRawQuote(s) == s = "it\"s"

\* texts that are not a JSON object: one json.loads rejects, a number and
\* an array
Malformed  == [malformed |-> TRUE]
JsonNumber == [scalar |-> 5]
JsonArray  == [array |-> << >>]

\* _generateJsonData: json.dumps of the object's dictionary, then the
\* replacements on the whole text
_generateJsonData(obj) ==
    LET d == [obj EXCEPT !.name = ReplaceQuotes(obj.name)] IN
    IF HasRawQuote(d.name) THEN Malformed ELSE [text |-> d]

EmptyText == [empty |-> TRUE]

sensorDataToJson(data) ==
    IF data = None THEN EmptyText ELSE _generateJsonData(data)

actuatorDataToJson(data) ==
    IF data = None THEN EmptyText ELSE _generateJsonData(data)

systemPerformanceDataToJson(data) ==
    IF data = None THEN EmptyText ELSE _generateJsonData(data)

(***************************************************************************)
(* ActuatorAdapterManager.                                                 *)
(***************************************************************************)
NoTask  == "None"
SimTask == "SimTask"
EmuTask == "EmulatorTask"

\* _initEnvironmentalActuationTasks: assigns the two simulators, leaves the
\* LED display reference as it is
_initEnvironmentalActuationTasks(tasks) ==
    [tasks EXCEPT !.humidifierActuator = SimTask, !.hvacActuator = SimTask]

\* _initActuatorEmulationTasks mutated: a failed load leaves the references
\* as they are at the failure
_initActuatorEmulationTasks_NoFallback(tasks, failAt) ==
    [humidifierActuator |-> IF failAt = 0 \/ failAt > 1 THEN EmuTask
                            ELSE tasks.humidifierActuator,
     hvacActuator       |-> IF failAt = 0 \/ failAt > 2 THEN EmuTask
                            ELSE tasks.hvacActuator,
     ledDisplayActuator |-> IF failAt = 0 THEN EmuTask
                            ELSE tasks.ledDisplayActuator]

\* _initActuatorEmulationTasks: the three emulators are loaded in order;
\* failAt = k > 0 means the k-th load raises, and either except branch falls
\* back to _initEnvironmentalActuationTasks
_initActuatorEmulationTasks(tasks, failAt) ==
    LET loaded == [humidifierActuator |-> IF failAt = 0 \/ failAt > 1 THEN EmuTask
                                          ELSE tasks.humidifierActuator,
                   hvacActuator       |-> IF failAt = 0 \/ failAt > 2 THEN EmuTask
                                          ELSE tasks.hvacActuator,
                   ledDisplayActuator |-> IF failAt = 0 THEN EmuTask
                                          ELSE tasks.ledDisplayActuator]
    IN  IF failAt = 0 THEN loaded ELSE _initEnvironmentalActuationTasks(loaded)

\* ActuatorAdapterManager.__init__: the task references after construction
ActuatorTasksAfterInit(useEmulator, failAt) ==
    LET unset == [humidifierActuator |-> NoTask, hvacActuator |-> NoTask,
                  ledDisplayActuator |-> NoTask]
    IN  IF useEmulator THEN _initActuatorEmulationTasks(unset, failAt)
        ELSE _initEnvironmentalActuationTasks(unset)

(***************************************************************************)
(* SensorAdapterManager: the backends.                                     *)
(***************************************************************************)
\* _initSensorSimulationTasks: assigns the three simulators
_initSensorSimulationTasks(tasks) ==
    [humidityAdapter |-> SimTask, pressureAdapter |-> SimTask, tempAdapter |-> SimTask]

\* _initSensorEmulationTasks: the three emulators are loaded in order;
\* failAt = k > 0 means the k-th load raises, and either except branch falls
\* back to _initSensorSimulationTasks
_initSensorEmulationTasks(tasks, failAt) ==
    LET loaded == [humidityAdapter |-> IF failAt = 0 \/ failAt > 1 THEN EmuTask
                                       ELSE tasks.humidityAdapter,
                   pressureAdapter |-> IF failAt = 0 \/ failAt > 2 THEN EmuTask
                                       ELSE tasks.pressureAdapter,
                   tempAdapter     |-> IF failAt = 0 THEN EmuTask
                                       ELSE tasks.tempAdapter]
    IN  IF failAt = 0 THEN loaded ELSE _initSensorSimulationTasks(loaded)

\* the backend references of a coordinator without a SensorAdapterManager
NoSensorTasks ==
    [humidityAdapter |-> NoTask, pressureAdapter |-> NoTask, tempAdapter |-> NoTask]

\* SensorAdapterManager.__init__: the backend references after construction
SensorTasksAfterInit(useEmulator, failAt) ==
    IF useEmulator THEN _initSensorEmulationTasks(NoSensorTasks, failAt)
    ELSE _initSensorSimulationTasks(NoSensorTasks)

\* A backend's updateActuator: a response record carrying the command, the
\* response flag and the status code of the activation or deactivation
updateActuator(data, status) ==
    [data EXCEPT !.isResponse = TRUE, !.statusCode = status]

BackendCall(backend, data) == [backend |-> backend, data |-> data]
NoDispatch == [response |-> None, calls |-> << >>]

\* sendActuatorCommand mutated: the location check is dropped
sendActuatorCommand_NoLocationCheck(data, status) ==
    IF data # None /\ ~data.isResponse
    THEN IF data.typeID = HVAC_ACTUATOR_TYPE /\ hvacActuator # NoTask
         THEN [response |-> updateActuator(data, status),
               calls    |-> <<BackendCall("hvacActuator", data)>>]
         ELSE NoDispatch
    ELSE NoDispatch

\* sendActuatorCommand mutated: the response flag is not looked at
sendActuatorCommand_NoResponseCheck(data, status) ==
    IF data # None /\ data.locationID = locationID
          /\ data.typeID = HVAC_ACTUATOR_TYPE /\ hvacActuator # NoTask
    THEN [response |-> updateActuator(data, status),
          calls    |-> <<BackendCall("hvacActuator", data)>>]
    ELSE NoDispatch

\* sendActuatorCommand mutated: every accepted command goes to the HVAC task
sendActuatorCommand_AlwaysHvac(data, status) ==
    IF data # None /\ ~data.isResponse /\ data.locationID = locationID
    THEN [response |-> updateActuator(data, status),
          calls    |-> <<BackendCall("hvacActuator", data)>>]
    ELSE NoDispatch

\* sendActuatorCommand: the response returned and the backend calls made
sendActuatorCommand(data, status) ==
    IF data # None /\ ~data.isResponse
    THEN IF data.locationID = locationID
         THEN LET aType == data.typeID IN
              IF aType = HUMIDIFIER_ACTUATOR_TYPE /\ humidifierActuator # NoTask
              THEN [response |-> updateActuator(data, status),
                    calls    |-> <<BackendCall("humidifierActuator", data)>>]
              ELSE IF aType = HVAC_ACTUATOR_TYPE /\ hvacActuator # NoTask
              THEN [response |-> updateActuator(data, status),
                    calls    |-> <<BackendCall("hvacActuator", data)>>]
              ELSE IF aType = LED_DISPLAY_ACTUATOR_TYPE /\ ledDisplayActuator # NoTask
              THEN [response |-> updateActuator(data, status),
                    calls    |-> <<BackendCall("ledDisplayActuator", data)>>]
              ELSE NoDispatch
         ELSE NoDispatch
    ELSE NoDispatch

(***************************************************************************)
(* DeviceDataManager: cache lookups and helpers.                           *)
(***************************************************************************)
\* cache[name] = data on a Python dict
\* the dictionary assignment mutated: the other entries are dropped
Put_Clearing(cache, name, data) ==
    [n \in {name} |-> data]

Put(cache, name, data) ==
    [n \in (DOMAIN cache) \cup {name} |-> IF n = name THEN data ELSE cache[n]]

getLatestSensorDataFromCache(name) ==
    IF Truthy(name) /\ name \in DOMAIN latestSensorDataCache
    THEN latestSensorDataCache[name] ELSE None

getLatestActuatorDataResponseFromCache(name) ==
    IF Truthy(name) /\ name \in DOMAIN latestActuatorDataCache
    THEN latestActuatorDataCache[name] ELSE None

getLatestSystemPerformanceDataFromCache(name) ==
    IF Truthy(name) /\ name \in DOMAIN latestSystemPerfDataCache
    THEN latestSystemPerfDataCache[name] ELSE None

\* _handleUpstreamTransmission mutated: every message goes out on the sensor
\* resource
_handleUpstreamTransmission_SensorResource(resourceName, msg) ==
    IF mqttClient THEN <<[resource |-> CDA_SENSOR_MSG_RESOURCE, msg |-> msg]>> ELSE << >>

\* _handleUpstreamTransmission mutated: the client is used without looking
\* at whether one is configured
_handleUpstreamTransmission_Unguarded(resourceName, msg) ==
    <<[resource |-> resourceName, msg |-> msg]>>

\* _handleUpstreamTransmission mutated: a publish on a client without a
\* connection is attempted a second time
_handleUpstreamTransmission_Retry(resourceName, msg) ==
    IF mqttClient
    THEN IF connection = CS_CONNECTED
         THEN <<[resource |-> resourceName, msg |-> msg]>>
         ELSE <<[resource |-> resourceName, msg |-> msg],
                [resource |-> resourceName, msg |-> msg]>>
    ELSE << >>

\* _handleUpstreamTransmission: the publishMessage calls made
_handleUpstreamTransmission(resourceName, msg) ==
    IF mqttClient THEN <<[resource |-> resourceName, msg |-> msg]>> ELSE << >>

NoCommand == [response |-> None, sent |-> << >>, calls |-> << >>]

\* handleActuatorCommandMessage: the response returned, the command handed
\* to sendActuatorCommand and the backend calls made
handleActuatorCommandMessage(data, status) ==
    IF data # None
    THEN LET r == sendActuatorCommand(data, status)
         IN  [response |-> r.response, sent |-> <<data>>, calls |-> r.calls]
    ELSE NoCommand

\* the command built by _handleSensorDataAnalysis for a qualifying reading
HvacCommand(data, command, value) ==
    [ActuatorData(HVAC_ACTUATOR_TYPE) EXCEPT
        !.locationID = data.locationID, !.name = HVAC_ACTUATOR_NAME,
        !.command = command, !.value = value]

\* _handleSensorDataAnalysis mutated: the thresholds themselves trigger
_handleSensorDataAnalysis_Inclusive(data, status) ==
    IF handleTempChangeOnDevice /\ data.typeID = TEMP_SENSOR_TYPE
    THEN handleActuatorCommandMessage(
            IF data.value >= triggerHvacTempCeiling
            THEN HvacCommand(data, COMMAND_ON, triggerHvacTempCeiling)
            ELSE IF data.value <= triggerHvacTempFloor
            THEN HvacCommand(data, COMMAND_ON, triggerHvacTempFloor)
            ELSE HvacCommand(data, COMMAND_OFF, 0), status)
    ELSE NoCommand

\* _handleSensorDataAnalysis mutated: the configuration flag is not looked at
_handleSensorDataAnalysis_Ungated(data, status) ==
    IF data.typeID = TEMP_SENSOR_TYPE
    THEN handleActuatorCommandMessage(
            IF data.value > triggerHvacTempCeiling
            THEN HvacCommand(data, COMMAND_ON, triggerHvacTempCeiling)
            ELSE IF data.value < triggerHvacTempFloor
            THEN HvacCommand(data, COMMAND_ON, triggerHvacTempFloor)
            ELSE HvacCommand(data, COMMAND_OFF, 0), status)
    ELSE NoCommand

\* _handleSensorDataAnalysis mutated: the command is addressed to this device
_handleSensorDataAnalysis_OwnLocation(data, status) ==
    IF handleTempChangeOnDevice /\ data.typeID = TEMP_SENSOR_TYPE
    THEN LET own == [data EXCEPT !.locationID = locationID] IN
         handleActuatorCommandMessage(
            IF data.value > triggerHvacTempCeiling
            THEN HvacCommand(own, COMMAND_ON, triggerHvacTempCeiling)
            ELSE IF data.value < triggerHvacTempFloor
            THEN HvacCommand(own, COMMAND_ON, triggerHvacTempFloor)
            ELSE HvacCommand(own, COMMAND_OFF, 0), status)
    ELSE NoCommand

\* _handleSensorDataAnalysis mutated: a command equal to the one issued by
\* the previous call is suppressed
_handleSensorDataAnalysis_Debounced(data, status) ==
    IF handleTempChangeOnDevice /\ data.typeID = TEMP_SENSOR_TYPE
    THEN LET ad == IF data.value > triggerHvacTempCeiling
                   THEN HvacCommand(data, COMMAND_ON, triggerHvacTempCeiling)
                   ELSE IF data.value < triggerHvacTempFloor
                   THEN HvacCommand(data, COMMAND_ON, triggerHvacTempFloor)
                   ELSE HvacCommand(data, COMMAND_OFF, 0)
         IN  IF sent = <<ad>> THEN NoCommand
             ELSE handleActuatorCommandMessage(ad, status)
    ELSE NoCommand

\* _handleSensorDataAnalysis: the threshold control rule
_handleSensorDataAnalysis(data, status) ==
    IF handleTempChangeOnDevice /\ data.typeID = TEMP_SENSOR_TYPE
    THEN handleActuatorCommandMessage(
            IF data.value > triggerHvacTempCeiling
            THEN HvacCommand(data, COMMAND_ON, triggerHvacTempCeiling)
            ELSE IF data.value < triggerHvacTempFloor
            THEN HvacCommand(data, COMMAND_ON, triggerHvacTempFloor)
            ELSE HvacCommand(data, COMMAND_OFF, 0), status)
    ELSE NoCommand

\* handleSensorMessage, lines 250-251, mutated: an entry is never overwritten
SensorCacheAfter_KeepFirst(data) ==
    IF Truthy(data.name) /\ data.name \notin DOMAIN latestSensorDataCache
    THEN Put(latestSensorDataCache, data.name, data)
    ELSE latestSensorDataCache

\* handleSensorMessage, lines 250-251, mutated: no name check
SensorCacheAfter_AnyName(data) ==
    Put(latestSensorDataCache, data.name, data)

\* handleSensorMessage, lines 250-251: the sensor cache after the insertion
SensorCacheAfter(data) ==
    IF Truthy(data.name)
    THEN Put(latestSensorDataCache, data.name, data)
    ELSE latestSensorDataCache

\* handleActuatorCommandResponse, lines 204-205
ActuatorCacheAfter(data) ==
    IF Truthy(data.name)
    THEN Put(latestActuatorDataCache, data.name, data)
    ELSE latestActuatorDataCache

\* handleSystemPerformanceMessage, lines 280-281, mutated: no name check
SystemPerfCacheAfter_AnyName(data) ==
    Put(latestSystemPerfDataCache, data.name, data)

\* handleSystemPerformanceMessage, lines 280-281
SystemPerfCacheAfter(data) ==
    IF Truthy(data.name)
    THEN Put(latestSystemPerfDataCache, data.name, data)
    ELSE latestSystemPerfDataCache

(***************************************************************************)
(* Operations.  Every operation records what it was called with, what it   *)
(* returned and the calls it made on its collaborators.                    *)
(***************************************************************************)
Entered(name, data) ==
    /\ op' = name
    /\ arg' = data
    /\ prevIssued' = [i \in DOMAIN sent |-> sent[i].command]
    /\ UNCHANGED <<config, sched>>

\* an operation of the coordinator or the actuator manager called directly:
\* no connection, scheduler or listener is involved
Called(name, data) ==
    /\ Entered(name, data)
    /\ UNCHANGED <<lifecycle, trace>>

\* a call made on a collaborator
Step(target, method, resource) ==
    [target |-> target, call |-> method, resource |-> resource]

NoSteps == << >>

\* the steps of an ingest operation without a rule: the cache write under a
\* name that is set, then the upstream transmission
IngestSteps(cache, name, resource) ==
    (IF Truthy(name) THEN <<Step(cache, "__setitem__", name)>> ELSE NoSteps)
    \o (IF mqttClient THEN <<Step("mqttClient", "publishMessage", resource)>> ELSE NoSteps)

\* the steps of handleSensorMessage on a reading, mutated: the upstream
\* transmission comes first
handleSensorMessage_PublishFirst(data, status) ==
    LET r == _handleSensorDataAnalysis(data, status) IN
    (IF mqttClient
     THEN <<Step("mqttClient", "publishMessage", CDA_SENSOR_MSG_RESOURCE)>> ELSE NoSteps)
    \o (IF Truthy(data.name)
        THEN <<Step("latestSensorDataCache", "__setitem__", data.name)>> ELSE NoSteps)
    \o (IF r.sent # << >>
        THEN <<Step("actuatorAdapterMgr", "sendActuatorCommand", "")>> ELSE NoSteps)
    \o [i \in DOMAIN r.calls |-> Step(r.calls[i].backend, "updateActuator", "")]

\* the steps of handleSensorMessage on a reading, in the order of the code:
\* the cache write, the rule with its dispatch and backend call, the upstream
\* transmission
handleSensorMessage(data, status) ==
    LET r == _handleSensorDataAnalysis(data, status) IN
    (IF Truthy(data.name)
     THEN <<Step("latestSensorDataCache", "__setitem__", data.name)>> ELSE NoSteps)
    \o (IF r.sent # << >>
        THEN <<Step("actuatorAdapterMgr", "sendActuatorCommand", "")>> ELSE NoSteps)
    \o [i \in DOMAIN r.calls |-> Step(r.calls[i].backend, "updateActuator", "")]
    \o (IF mqttClient
        THEN <<Step("mqttClient", "publishMessage", CDA_SENSOR_MSG_RESOURCE)>> ELSE NoSteps)

\* handleSensorMessage mutated: the upstream transmission precedes the null
\* check
HandleSensorMessage_PublishFirst(data, status) ==
    /\ Entered("handleSensorMessage", data)
    /\ steps' = IF data # None THEN handleSensorMessage(data, status) ELSE NoSteps
    /\ UNCHANGED <<lifecycle, forwarded, delivered, repeat>>
    /\ published' = _handleUpstreamTransmission(CDA_SENSOR_MSG_RESOURCE,
                                                sensorDataToJson(data))
    /\ IF data # None
       THEN LET r == _handleSensorDataAnalysis(data, status) IN
            /\ latestSensorDataCache' = SensorCacheAfter(data)
            /\ sent' = r.sent
            /\ invoked' = r.calls
            /\ ret' = RetTrue
       ELSE /\ ret' = RetFalse
            /\ sent' = << >>
            /\ invoked' = << >>
            /\ UNCHANGED latestSensorDataCache
    /\ UNCHANGED <<latestActuatorDataCache, latestSystemPerfDataCache>>

\* DeviceDataManager.handleSensorMessage
HandleSensorMessage(data, status) ==
    /\ Entered("handleSensorMessage", data)
    /\ steps' = IF data # None THEN handleSensorMessage(data, status) ELSE NoSteps
    /\ UNCHANGED <<lifecycle, forwarded, delivered, repeat>>
    /\ IF data # None
       THEN LET r == _handleSensorDataAnalysis(data, status) IN
            /\ latestSensorDataCache' = SensorCacheAfter(data)
            /\ sent' = r.sent
            /\ invoked' = r.calls
            /\ published' = _handleUpstreamTransmission(CDA_SENSOR_MSG_RESOURCE,
                                                        sensorDataToJson(data))
            /\ ret' = RetTrue
       ELSE /\ ret' = RetFalse
            /\ sent' = << >>
            /\ invoked' = << >>
            /\ published' = << >>
            /\ UNCHANGED latestSensorDataCache
    /\ UNCHANGED <<latestActuatorDataCache, latestSystemPerfDataCache>>

\* DeviceDataManager.handleSystemPerformanceMessage
HandleSystemPerformanceMessage(data) ==
    /\ Entered("handleSystemPerformanceMessage", data)
    /\ steps' = IF data # None
                THEN IngestSteps("latestSystemPerfDataCache", data.name,
                                 CDA_SYSTEM_PERF_MSG_RESOURCE)
                ELSE NoSteps
    /\ UNCHANGED <<lifecycle, forwarded, delivered, repeat>>
    /\ sent' = << >>
    /\ invoked' = << >>
    /\ IF data # None
       THEN /\ latestSystemPerfDataCache' = SystemPerfCacheAfter(data)
            /\ published' = _handleUpstreamTransmission(CDA_SYSTEM_PERF_MSG_RESOURCE,
                                                        systemPerformanceDataToJson(data))
            /\ ret' = RetTrue
       ELSE /\ ret' = RetFalse
            /\ published' = << >>
            /\ UNCHANGED latestSystemPerfDataCache
    /\ UNCHANGED <<latestSensorDataCache, latestActuatorDataCache>>

\* DeviceDataManager.handleActuatorCommandResponse
HandleActuatorCommandResponse(data) ==
    /\ Entered("handleActuatorCommandResponse", data)
    /\ steps' = IF data # None
                THEN IngestSteps("latestActuatorDataCache", data.name,
                                 CDA_ACTUATOR_RESPONSE_MSG_RESOURCE)
                ELSE NoSteps
    /\ UNCHANGED <<lifecycle, forwarded, delivered, repeat>>
    /\ sent' = << >>
    /\ invoked' = << >>
    /\ IF data # None
       THEN /\ latestActuatorDataCache' = ActuatorCacheAfter(data)
            /\ published' = _handleUpstreamTransmission(CDA_ACTUATOR_RESPONSE_MSG_RESOURCE,
                                                        actuatorDataToJson(data))
            /\ ret' = RetTrue
       ELSE /\ ret' = RetFalse
            /\ published' = << >>
            /\ UNCHANGED latestActuatorDataCache
    /\ UNCHANGED <<latestSensorDataCache, latestSystemPerfDataCache>>

\* DeviceDataManager.handleActuatorCommandMessage called by a connection
HandleActuatorCommandMessage(data, status) ==
    LET r == handleActuatorCommandMessage(data, status) IN
    /\ Called("handleActuatorCommandMessage", data)
    /\ ret' = r.response
    /\ sent' = r.sent
    /\ invoked' = r.calls
    /\ published' = << >>
    /\ UNCHANGED caches

\* ActuatorAdapterManager.sendActuatorCommand called directly
SendActuatorCommand(data, status) ==
    LET r == sendActuatorCommand(data, status) IN
    /\ Called("sendActuatorCommand", data)
    /\ ret' = r.response
    /\ sent' = IF data # None THEN <<data>> ELSE << >>
    /\ invoked' = r.calls
    /\ published' = << >>
    /\ UNCHANGED caches

(***************************************************************************)
(* ResourceNameEnum: the resources and their topic strings.                *)
(***************************************************************************)
CDA_ACTUATOR_CMD_RESOURCE    == "CDA_ACTUATOR_CMD_RESOURCE"
CDA_MGMT_STATUS_CMD_RESOURCE == "CDA_MGMT_STATUS_CMD_RESOURCE"

ResourceNames ==
    {CDA_ACTUATOR_CMD_RESOURCE, CDA_MGMT_STATUS_CMD_RESOURCE, CDA_SENSOR_MSG_RESOURCE,
     CDA_ACTUATOR_RESPONSE_MSG_RESOURCE, CDA_SYSTEM_PERF_MSG_RESOURCE}

\* ResourceNameEnum.<member>.value
ResourceValue(r) ==
    CASE r = CDA_ACTUATOR_CMD_RESOURCE          -> "PIOT/ConstrainedDevice/ActuatorCmd"
      [] r = CDA_MGMT_STATUS_CMD_RESOURCE       -> "PIOT/ConstrainedDevice/MgmtStatusCmd"
      [] r = CDA_SENSOR_MSG_RESOURCE            -> "PIOT/ConstrainedDevice/SensorMsg"
      [] r = CDA_ACTUATOR_RESPONSE_MSG_RESOURCE -> "PIOT/ConstrainedDevice/ActuatorResponse"
      [] r = CDA_SYSTEM_PERF_MSG_RESOURCE       -> "PIOT/ConstrainedDevice/SystemPerfMsg"

\* ResourceNameEnum.getResourceNameByValue: the member whose value is the
\* topic, None (NullName) when there is none
getResourceNameByValue(topic) ==
    IF \E r \in ResourceNames : ResourceValue(r) = topic
    THEN CHOOSE r \in ResourceNames : ResourceValue(r) = topic
    ELSE NullName

(***************************************************************************)
(* DataUtil: JSON text -> object.                                          *)
(***************************************************************************)
DEFAULT_ACTUATOR_TYPE == "DEFAULT_ACTUATOR_TYPE"
DEFAULT_SENSOR_TYPE   == "DEFAULT_SENSOR_TYPE"

\* SensorData() and SystemPerformanceData(): every field at its default
DefaultSensorData == SensorData(NOT_SET, DEFAULT_SENSOR_TYPE, NOT_SET, 0)
DefaultSystemPerformanceData == SystemPerformanceData(SYSTEM_PERF_NAME, 0, 0)

\* Python truthiness of a str-or-None message text
TruthyText(t) == t # None /\ t # EmptyText

\* _formatDataAndLoadDictionary: the textual replacements, then json.loads,
\* which raises on a text that is not JSON
_formatDataAndLoadDictionary(jsonData) ==
    IF "text" \in DOMAIN jsonData
    THEN LET d == [f \in DOMAIN jsonData.text |->
                     IF f = "name" THEN ReplaceQuotes(jsonData.text[f])
                     ELSE jsonData.text[f]]
         IN  IF "name" \in DOMAIN d /\ HasRawQuote(d.name) THEN Raised ELSE d
    ELSE IF jsonData = Malformed THEN Raised
    ELSE jsonData

\* _updateIotData: the keys of the dictionary that are attributes of obj;
\* the loop raises on a number and finds no key in an array
_updateIotData(jsonStruct, obj) ==
    IF "scalar" \in DOMAIN jsonStruct THEN Raised
    ELSE IF "array" \in DOMAIN jsonStruct THEN obj
    ELSE [f \in DOMAIN obj |-> IF f \in DOMAIN jsonStruct THEN jsonStruct[f] ELSE obj[f]]

\* the three decoders: empty check, parse, update of a fresh object
jsonToData(jsonData, fresh) ==
    IF ~TruthyText(jsonData) THEN None
    ELSE LET jsonStruct == _formatDataAndLoadDictionary(jsonData) IN
         IF jsonStruct = Raised THEN Raised
         ELSE _updateIotData(jsonStruct, fresh)

jsonToActuatorData(jsonData) == jsonToData(jsonData, ActuatorData(DEFAULT_ACTUATOR_TYPE))

jsonToSensorData(jsonData) == jsonToData(jsonData, DefaultSensorData)

jsonToSystemPerformanceData(jsonData) == jsonToData(jsonData, DefaultSystemPerformanceData)

(***************************************************************************)
(* DeviceDataManager: the inbound path.                                    *)
(***************************************************************************)
\* _handleIncomingDataAnalysis: the command handed on and the backend calls
\* made; the response handleActuatorCommandMessage returns is not used
_handleIncomingDataAnalysis(msg, status) ==
    LET actuatorData == jsonToActuatorData(msg) IN
    IF actuatorData = Raised \/ actuatorData = None
    THEN NoCommand
    ELSE handleActuatorCommandMessage(actuatorData, status)

\* handleIncomingMessage mutated: the payload is analysed without the
\* emptiness check
handleIncomingMessage_NoEmptyCheck(resourceEnum, msg, status) ==
    LET r == _handleIncomingDataAnalysis(msg, status)
    IN  [ret |-> RetTrue, sent |-> r.sent, calls |-> r.calls,
         steps |-> <<[target |-> "dataUtil", call |-> "jsonToActuatorData",
                      resource |-> ""]>>]

\* handleIncomingMessage mutated: only a message for the actuator command
\* resource is analysed
handleIncomingMessage_ByResource(resourceEnum, msg, status) ==
    IF TruthyText(msg) /\ resourceEnum = CDA_ACTUATOR_CMD_RESOURCE
    THEN LET r == _handleIncomingDataAnalysis(msg, status)
         IN  [ret |-> RetTrue, sent |-> r.sent, calls |-> r.calls,
              steps |-> <<[target |-> "dataUtil", call |-> "jsonToActuatorData",
                           resource |-> ""]>>]
    ELSE [ret |-> IF TruthyText(msg) THEN RetTrue ELSE RetFalse,
          sent |-> << >>, calls |-> << >>, steps |-> << >>]

\* handleIncomingMessage mutated: an exception of the decoder reaches the
\* caller and a rejected command is reported as a failure
handleIncomingMessage_Strict(resourceEnum, msg, status) ==
    IF TruthyText(msg)
    THEN LET r == _handleIncomingDataAnalysis(msg, status)
         IN  [ret |-> IF jsonToActuatorData(msg) = Raised THEN Raised
                      ELSE IF r.calls = << >> THEN RetFalse ELSE RetTrue,
              sent |-> r.sent, calls |-> r.calls,
              steps |-> <<[target |-> "dataUtil", call |-> "jsonToActuatorData",
                           resource |-> ""]>>]
    ELSE [ret |-> RetFalse, sent |-> << >>, calls |-> << >>, steps |-> << >>]

\* handleIncomingMessage: the return value, what the analysis did and the
\* decode call it made
handleIncomingMessage(resourceEnum, msg, status) ==
    IF TruthyText(msg)
    THEN LET r == _handleIncomingDataAnalysis(msg, status)
         IN  [ret |-> RetTrue, sent |-> r.sent, calls |-> r.calls,
              steps |-> <<[target |-> "dataUtil", call |-> "jsonToActuatorData",
                           resource |-> ""]>>]
    ELSE [ret |-> RetFalse, sent |-> << >>, calls |-> << >>, steps |-> << >>]

(***************************************************************************)
(* MqttClientConnector and the paho client mc it wraps.                    *)
(***************************************************************************)
\* the bytes of a payload: msg.payload.decode('utf-8') raises on BadBytes
Utf8(text) == [utf8 |-> text]
BadBytes   == [bytes |-> "invalid"]
decode(payload) == IF "utf8" \in DOMAIN payload THEN payload.utf8 ELSE Raised

\* onMessage mutated: the listener is called whatever the topic resolves to
onMessage_AnyTopic(topic, payload) ==
    IF decode(payload) = Raised THEN << >>
    ELSE <<[resource |-> getResourceNameByValue(topic), msg |-> decode(payload)]>>

\* onMessage with a listener registered: the handleIncomingMessage calls made
onMessage(topic, payload) ==
    IF decode(payload) = Raised THEN << >>
    ELSE LET resourceEnum == getResourceNameByValue(topic) IN
         IF Truthy(resourceEnum)
         THEN <<[resource |-> resourceEnum, msg |-> decode(payload)]>>
         ELSE << >>

\* connectClient: mc.connect opens a clean session or raises
connectClient(m, reachable) ==
    [connection |-> IF reachable THEN CS_CONNECTED ELSE CS_FAILED, subscriptions |-> {}]

\* disconnectClient: mc.loop_stop, mc.disconnect
disconnectClient(m) ==
    [connection |-> CS_DISCONNECTED, subscriptions |-> {}]

\* subscribeToTopic: mc.subscribe reaches the broker on an open connection
subscribeToTopic(m, resource) ==
    IF Truthy(resource) /\ m.connection = CS_CONNECTED
    THEN [m EXCEPT !.subscriptions = @ \cup {resource}]
    ELSE m

\* unsubscribeFromTopic: mc.unsubscribe
unsubscribeFromTopic(m, resource) ==
    IF Truthy(resource) /\ m.connection = CS_CONNECTED
    THEN [m EXCEPT !.subscriptions = @ \ {resource}]
    ELSE m

\* mc.publish followed by wait_for_publish: without a connection the message
\* info carries MQTT_ERR_NO_CONN and wait_for_publish raises
PahoPublish(acked) ==
    IF connection = CS_CONNECTED /\ acked THEN "published" ELSE "raises"

\* publishMessage mutated: no try/except around the client calls
publishMessage_Unguarded(resource, msg, acked) ==
    IF ~Truthy(resource) THEN RetFalse
    ELSE IF ~TruthyText(msg) THEN RetFalse
    ELSE IF PahoPublish(acked) = "published" THEN RetTrue ELSE Raised

\* publishMessage: the value returned
publishMessage(resource, msg, acked) ==
    IF ~Truthy(resource) THEN RetFalse
    ELSE IF ~TruthyText(msg) THEN RetFalse
    ELSE IF PahoPublish(acked) = "published" THEN RetTrue ELSE RetFalse

(***************************************************************************)
(* SystemPerformanceManager and SensorAdapterManager.                      *)
(***************************************************************************)
MaxRepeat == 2

\* the interval jobs of the two schedulers
SensorJob     == "sensor_telemetry_job"
SystemPerfJob == "system_perf_job"
Jobs          == {SensorJob, SystemPerfJob}

MaxDue == 2
\* the polls the backends answer with a rising series
MaxServed == 4

\* add_job mutated: a third execution of a job may start
max_instances_Three(job) == 3

\* add_job: max_instances is 2 for the sensor job; the system performance
\* job is added without it and gets the scheduler's default
max_instances(job) == IF job = SensorJob THEN 2 ELSE 1

\* add_job: coalesce is set for the sensor job and is the scheduler's default
\* for the system performance job
coalesce(job) == TRUE

\* the run times the scheduler submits when n of them are due
RunTimes(job, n) == IF coalesce(job) /\ n > 1 THEN 1 ELSE n

\* an execution of a job in a worker thread: where it is in the job
\* function, the readings it polled, the reading it is at and the run times
\* it still has to serve
Execution(pc, idx, readings, runs) ==
    [pc |-> pc, idx |-> idx, readings |-> readings, runs |-> runs]

\* scheduler.shutdown mutated: it returns without waiting for the worker
\* threads
Drained_NoWait(job) == TRUE

\* scheduler.shutdown waits until the job's executions have ended
Drained(job) == BagCardinality(executing[job]) = 0

\* SystemPerformanceManager.startManager
SystemPerformanceManager_startManager(started) ==
    [isStarted |-> TRUE,
     steps |-> <<Step("sysPerfMgr", "startManager", "")>> \o
               (IF ~started THEN <<Step("sysPerfMgr.scheduler", "start", "")>> ELSE NoSteps)]

\* SystemPerformanceManager.stopManager
SystemPerformanceManager_stopManager(started) ==
    [isStarted |-> FALSE,
     steps |-> <<Step("sysPerfMgr", "stopManager", "")>> \o
               (IF started THEN <<Step("sysPerfMgr.scheduler", "shutdown", "")>> ELSE NoSteps)]

\* SensorAdapterManager.startManager
SensorAdapterManager_startManager(run) ==
    [running |-> TRUE,
     steps |-> <<Step("sensorAdapterMgr", "startManager", "")>> \o
               (IF ~run THEN <<Step("sensorAdapterMgr.scheduler", "start", "")>> ELSE NoSteps)]

\* SensorAdapterManager.stopManager: shutdown raises on a stopped scheduler
\* and the exception is swallowed
SensorAdapterManager_stopManager(run) ==
    [running |-> FALSE,
     steps |-> <<Step("sensorAdapterMgr", "stopManager", ""),
                 Step("sensorAdapterMgr.scheduler", "shutdown", "")>>]

\* SensorAdapterManager.handleTelemetry mutated: the readings are forwarded as
\* the backends returned them
SensorAdapterManager_handleTelemetry_Unstamped(polled) ==
    [steps |-> <<Step("humidityAdapter", "generateTelemetry", ""),
                 Step("pressureAdapter", "generateTelemetry", ""),
                 Step("tempAdapter", "generateTelemetry", "")>>,
     forwarded |-> polled]

\* SensorAdapterManager.handleTelemetry mutated: no listener is registered
SensorAdapterManager_handleTelemetry_NoListener(polled) ==
    [steps |-> <<Step("humidityAdapter", "generateTelemetry", ""),
                 Step("pressureAdapter", "generateTelemetry", ""),
                 Step("tempAdapter", "generateTelemetry", "")>>,
     forwarded |-> << >>]

\* SensorAdapterManager.handleTelemetry with the coordinator as listener: the
\* backends polled and the readings passed to handleSensorMessage, in order.
\* One try block holds the three polls and the three calls of the listener:
\* a generateTelemetry that raises ends the firing in the except clause
SensorAdapterManager_handleTelemetry(polled) ==
    LET polls  == <<Step("humidityAdapter", "generateTelemetry", ""),
                    Step("pressureAdapter", "generateTelemetry", ""),
                    Step("tempAdapter", "generateTelemetry", "")>>
        failed == {i \in DOMAIN polled : polled[i] = Raised}
    IN  IF failed = {}
        THEN [steps |-> polls,
              forwarded |-> [i \in DOMAIN polled |->
                                [polled[i] EXCEPT !.locationID = locationID]]]
        ELSE LET first == CHOOSE i \in failed : \A j \in failed : i <= j IN
             [steps |-> SubSeq(polls, 1, first), forwarded |-> << >>]

(***************************************************************************)
(* DeviceDataManager: lifecycle.                                           *)
(***************************************************************************)
Idle(started) == [isStarted |-> started, running |-> started, steps |-> NoSteps]

\* startManager mutated: the sensor manager is started only when the system
\* performance manager is enabled
startManager_Chained(reachable) ==
    LET m0 == [connection |-> connection, subscriptions |-> subscriptions]
        m  == IF mqttClient
              THEN subscribeToTopic(subscribeToTopic(connectClient(m0, reachable),
                       CDA_ACTUATOR_CMD_RESOURCE), CDA_MGMT_STATUS_CMD_RESOURCE)
              ELSE m0
        c  == IF mqttClient
              THEN <<Step("mqttClient", "connectClient", ""),
                     Step("mqttClient", "subscribeToTopic", CDA_ACTUATOR_CMD_RESOURCE),
                     Step("mqttClient", "subscribeToTopic", CDA_MGMT_STATUS_CMD_RESOURCE)>>
              ELSE NoSteps
        p  == IF sysPerfMgr THEN SystemPerformanceManager_startManager(isStarted)
              ELSE Idle(isStarted)
        s  == IF sysPerfMgr /\ sensorAdapterMgr THEN SensorAdapterManager_startManager(running)
              ELSE Idle(running)
    IN  [mqtt |-> m, isStarted |-> p.isStarted, running |-> s.running,
         steps |-> c \o p.steps \o s.steps]

\* DeviceDataManager.startManager
startManager(reachable) ==
    LET m0 == [connection |-> connection, subscriptions |-> subscriptions]
        m  == IF mqttClient
              THEN subscribeToTopic(subscribeToTopic(connectClient(m0, reachable),
                       CDA_ACTUATOR_CMD_RESOURCE), CDA_MGMT_STATUS_CMD_RESOURCE)
              ELSE m0
        c  == IF mqttClient
              THEN <<Step("mqttClient", "connectClient", ""),
                     Step("mqttClient", "subscribeToTopic", CDA_ACTUATOR_CMD_RESOURCE),
                     Step("mqttClient", "subscribeToTopic", CDA_MGMT_STATUS_CMD_RESOURCE)>>
              ELSE NoSteps
        p  == IF sysPerfMgr THEN SystemPerformanceManager_startManager(isStarted)
              ELSE Idle(isStarted)
        s  == IF sensorAdapterMgr THEN SensorAdapterManager_startManager(running)
              ELSE Idle(running)
    IN  [mqtt |-> m, isStarted |-> p.isStarted, running |-> s.running,
         steps |-> c \o p.steps \o s.steps]

\* stopManager mutated: the MQTT client is released before the schedulers
stopManager_MqttFirst ==
    LET m0 == [connection |-> connection, subscriptions |-> subscriptions]
        m  == IF mqttClient
              THEN disconnectClient(unsubscribeFromTopic(unsubscribeFromTopic(m0,
                       CDA_ACTUATOR_CMD_RESOURCE), CDA_MGMT_STATUS_CMD_RESOURCE))
              ELSE m0
        c  == IF mqttClient
              THEN <<Step("mqttClient", "unsubscribeFromTopic", CDA_ACTUATOR_CMD_RESOURCE),
                     Step("mqttClient", "unsubscribeFromTopic", CDA_MGMT_STATUS_CMD_RESOURCE),
                     Step("mqttClient", "disconnectClient", "")>>
              ELSE NoSteps
        p  == IF sysPerfMgr THEN SystemPerformanceManager_stopManager(isStarted)
              ELSE Idle(isStarted)
        s  == IF sensorAdapterMgr THEN SensorAdapterManager_stopManager(running)
              ELSE Idle(running)
    IN  [mqtt |-> m, isStarted |-> p.isStarted, running |-> s.running,
         steps |-> c \o p.steps \o s.steps]

\* DeviceDataManager.stopManager
stopManager ==
    LET m0 == [connection |-> connection, subscriptions |-> subscriptions]
        m  == IF mqttClient
              THEN disconnectClient(unsubscribeFromTopic(unsubscribeFromTopic(m0,
                       CDA_ACTUATOR_CMD_RESOURCE), CDA_MGMT_STATUS_CMD_RESOURCE))
              ELSE m0
        c  == IF mqttClient
              THEN <<Step("mqttClient", "unsubscribeFromTopic", CDA_ACTUATOR_CMD_RESOURCE),
                     Step("mqttClient", "unsubscribeFromTopic", CDA_MGMT_STATUS_CMD_RESOURCE),
                     Step("mqttClient", "disconnectClient", "")>>
              ELSE NoSteps
        p  == IF sysPerfMgr THEN SystemPerformanceManager_stopManager(isStarted)
              ELSE Idle(isStarted)
        s  == IF sensorAdapterMgr THEN SensorAdapterManager_stopManager(running)
              ELSE Idle(running)
    IN  [mqtt |-> m, isStarted |-> p.isStarted, running |-> s.running,
         steps |-> p.steps \o s.steps \o c]

(***************************************************************************)
(* Operations on the connection, the schedulers and the lifecycle.         *)
(***************************************************************************)
RECURSIVE Flatten(_)
\* the concatenation of a sequence of sequences
Flatten(seqs) ==
    IF seqs = << >> THEN << >> ELSE Head(seqs) \o Flatten(Tail(seqs))

RECURSIVE SensorCacheAfterAll(_, _)
\* the sensor cache after handleSensorMessage took the readings in order
SensorCacheAfterAll(cache, readings) ==
    IF readings = << >> THEN cache
    ELSE LET data == Head(readings) IN
         SensorCacheAfterAll(IF Truthy(data.name) THEN Put(cache, data.name, data) ELSE cache,
                             Tail(readings))

\* an operation that makes no call through the actuator manager
NoActuation ==
    /\ sent' = << >>
    /\ invoked' = << >>
    /\ published' = << >>

\* DeviceDataManager.startManager / stopManager: r is what the call did
Lifecycle(name, r) ==
    /\ op = name => repeat < MaxRepeat
    /\ Entered(name, None)
    /\ ret' = None
    /\ NoActuation
    /\ connection' = r.mqtt.connection
    /\ subscriptions' = r.mqtt.subscriptions
    /\ isStarted' = r.isStarted
    /\ running' = r.running
    /\ steps' = r.steps
    /\ forwarded' = << >>
    /\ delivered' = << >>
    /\ repeat' = IF op = name THEN repeat + 1 ELSE 1
    /\ UNCHANGED caches

StartManager(reachable) == Lifecycle("startManager", startManager(reachable))

StopManager == Lifecycle("stopManager", stopManager)

\* SystemPerformanceManager.handleTelemetry, fired by its scheduler
SystemPerformanceHandleTelemetry(cpu, mem) ==
    /\ sysPerfMgr /\ isStarted
    /\ Entered("SystemPerformanceManager.handleTelemetry", [cpuUtil |-> cpu, memUtil |-> mem])
    /\ ret' = None
    /\ NoActuation
    /\ steps' = <<Step("cpuUtilTask", "getTelemetryValue", ""),
                  Step("memUtilTask", "getTelemetryValue", "")>>
    /\ forwarded' = << >>
    /\ delivered' = << >>
    /\ repeat' = 0
    /\ UNCHANGED <<caches, lifecycle>>

\* SensorAdapterManager.handleTelemetry, fired by its scheduler: polled are
\* the readings of the humidity, pressure and temperature backends
SensorHandleTelemetry(polled, status) ==
    LET t  == SensorAdapterManager_handleTelemetry(polled)
        rs == [i \in DOMAIN t.forwarded |-> _handleSensorDataAnalysis(t.forwarded[i], status)]
    IN
    /\ sensorAdapterMgr /\ running
    /\ Entered("SensorAdapterManager.handleTelemetry", [polled |-> polled])
    /\ ret' = None
    /\ steps' = t.steps
    /\ forwarded' = t.forwarded
    /\ latestSensorDataCache' = SensorCacheAfterAll(latestSensorDataCache, t.forwarded)
    /\ sent' = Flatten([i \in DOMAIN rs |-> rs[i].sent])
    /\ invoked' = Flatten([i \in DOMAIN rs |-> rs[i].calls])
    /\ published' = Flatten([i \in DOMAIN rs |->
            _handleUpstreamTransmission(CDA_SENSOR_MSG_RESOURCE,
                                        sensorDataToJson(t.forwarded[i]))])
    /\ delivered' = << >>
    /\ repeat' = 0
    /\ UNCHANGED <<latestActuatorDataCache, latestSystemPerfDataCache, lifecycle>>

\* DeviceDataManager.handleIncomingMessage
HandleIncomingMessage(resourceEnum, msg, status) ==
    LET r == handleIncomingMessage(resourceEnum, msg, status) IN
    /\ Entered("handleIncomingMessage", [resource |-> resourceEnum, msg |-> msg])
    /\ ret' = r.ret
    /\ sent' = r.sent
    /\ invoked' = r.calls
    /\ published' = << >>
    /\ steps' = r.steps
    /\ forwarded' = << >>
    /\ delivered' = << >>
    /\ repeat' = 0
    /\ UNCHANGED <<caches, lifecycle>>

\* MqttClientConnector.onMessage, called by the paho network loop, with the
\* coordinator registered as listener
OnMessage(topic, payload, status) ==
    LET d == onMessage(topic, payload)
        r == IF d = << >> THEN NoCommand
             ELSE handleIncomingMessage(d[1].resource, d[1].msg, status)
    IN
    /\ mqttClient
    /\ Entered("onMessage", [topic |-> topic, payload |-> payload])
    /\ ret' = IF decode(payload) = Raised THEN Raised ELSE None
    /\ delivered' = d
    /\ sent' = r.sent
    /\ invoked' = r.calls
    /\ published' = << >>
    /\ steps' = IF d = << >> THEN << >> ELSE r.steps
    /\ forwarded' = << >>
    /\ repeat' = 0
    /\ UNCHANGED <<caches, lifecycle>>

(***************************************************************************)
(* The scheduler threads, the worker threads and the thread that stops the *)
(* coordinator.                                                            *)
(***************************************************************************)
\* the scheduler of a job processes its run times
SchedulerRunning(job) ==
    IF job = SensorJob THEN sensorAdapterMgr /\ running
    ELSE sysPerfMgr /\ isStarted /\ mainThread # "stopPerf"

\* the executions of a job with e replaced by the executions in next
Advance(job, e, next) ==
    [executing EXCEPT ![job] = (@ (-) SetToBag({e})) (+) next]

\* what is left of an execution when the job function returns
Finished(e) ==
    IF e.runs > 1 THEN SetToBag({Execution("start", 0, << >>, e.runs - 1)})
    ELSE EmptyBag

\* the interval of a job passes
IntervalElapses(job) ==
    /\ SchedulerRunning(job)
    /\ due[job] < MaxDue
    /\ due' = [due EXCEPT ![job] = @ + 1]
    /\ UNCHANGED <<config, caches, call, lifecycle, trace, executing, mainThread, served>>

\* the scheduler thread processes a due job: the run times are coalesced and
\* submitted to the executor, which skips the run when max_instances
\* executions of the job are running
ProcessJobs(job) ==
    /\ SchedulerRunning(job)
    /\ due[job] > 0
    /\ due' = [due EXCEPT ![job] = 0]
    /\ executing' =
          IF BagCardinality(executing[job]) < max_instances(job)
          THEN [executing EXCEPT ![job] =
                   @ (+) SetToBag({Execution("start", 0, << >>, RunTimes(job, due[job]))})]
          ELSE executing
    /\ UNCHANGED <<config, caches, call, lifecycle, trace, mainThread, served>>

\* a worker thread in SensorAdapterManager.handleTelemetry polls the three
\* backends and stamps the readings
TelemetryRun(e, polled, count) ==
    LET t == SensorAdapterManager_handleTelemetry(polled) IN
    /\ BagIn(e, executing[SensorJob])
    /\ e.pc = "start"
    /\ executing' = Advance(SensorJob, e,
                        IF t.forwarded = << >> THEN Finished(e)
                        ELSE SetToBag({Execution("forward", 1, t.forwarded, e.runs)}))
    /\ served' = count
    /\ UNCHANGED <<config, caches, call, lifecycle, trace, due, mainThread>>

\* the backends return what the caller chooses
TelemetryPoll(e, polled) == TelemetryRun(e, polled, served)

\* the worker thread enters handleSensorMessage with its next reading and
\* writes the cache
IngestEnter(e) ==
    /\ BagIn(e, executing[SensorJob])
    /\ e.pc = "forward"
    /\ latestSensorDataCache' = SensorCacheAfter(e.readings[e.idx])
    /\ executing' = Advance(SensorJob, e, SetToBag({[e EXCEPT !.pc = "inside"]}))
    /\ UNCHANGED <<config, latestActuatorDataCache, latestSystemPerfDataCache,
                   call, lifecycle, trace, due, mainThread, served>>

\* the worker thread runs the rule and the upstream transmission and returns
\* from handleSensorMessage
IngestLeave(e, status) ==
    LET data == e.readings[e.idx]
        r    == _handleSensorDataAnalysis(data, status)
    IN
    /\ BagIn(e, executing[SensorJob])
    /\ e.pc = "inside"
    /\ op' = "handleSensorMessage"
    /\ arg' = data
    /\ ret' = RetTrue
    /\ prevIssued' = [i \in DOMAIN sent |-> sent[i].command]
    /\ sent' = r.sent
    /\ invoked' = r.calls
    /\ published' = _handleUpstreamTransmission(CDA_SENSOR_MSG_RESOURCE,
                                                sensorDataToJson(data))
    /\ executing' = Advance(SensorJob, e,
                        IF e.idx < Len(e.readings)
                        THEN SetToBag({[e EXCEPT !.pc = "forward", !.idx = @ + 1]})
                        ELSE Finished(e))
    /\ UNCHANGED <<config, caches, lifecycle, trace, due, mainThread, served>>

\* a worker thread runs SystemPerformanceManager.handleTelemetry
PerfTelemetry(e, cpu, mem) ==
    /\ BagIn(e, executing[SystemPerfJob])
    /\ e.pc = "start"
    /\ op' = "SystemPerformanceManager.handleTelemetry"
    /\ arg' = [cpuUtil |-> cpu, memUtil |-> mem]
    /\ ret' = None
    /\ prevIssued' = [i \in DOMAIN sent |-> sent[i].command]
    /\ NoActuation
    /\ executing' = Advance(SystemPerfJob, e, Finished(e))
    /\ UNCHANGED <<config, caches, lifecycle, trace, due, mainThread, served>>

\* DeviceDataManager.stopManager is called: it calls
\* SystemPerformanceManager.stopManager, whose scheduler takes no further
\* run time
StopManagerEnter ==
    /\ mainThread = "idle"
    /\ mainThread' = "stopPerf"
    /\ UNCHANGED <<config, caches, call, lifecycle, trace, due, executing, served>>

\* the shutdown of the system performance scheduler returns and
\* SensorAdapterManager.stopManager is called, whose scheduler stops running
StopManagerNext ==
    /\ mainThread = "stopPerf"
    /\ Drained(SystemPerfJob)
    /\ isStarted' = stopManager.isStarted
    /\ running' = stopManager.running
    /\ due' = [job \in Jobs |-> 0]
    /\ mainThread' = "stopSensor"
    /\ UNCHANGED <<config, caches, call, connection, subscriptions, trace, executing, served>>

\* the shutdown of the sensor scheduler returns, the connection is released
\* and DeviceDataManager.stopManager returns
StopManagerReturn ==
    /\ mainThread = "stopSensor"
    /\ Drained(SensorJob)
    /\ op' = "stopManager"
    /\ arg' = None
    /\ ret' = None
    /\ prevIssued' = [i \in DOMAIN sent |-> sent[i].command]
    /\ NoActuation
    /\ connection' = stopManager.mqtt.connection
    /\ subscriptions' = stopManager.mqtt.subscriptions
    /\ steps' = stopManager.steps
    /\ forwarded' = << >>
    /\ delivered' = << >>
    /\ repeat' = 0
    /\ mainThread' = "idle"
    /\ UNCHANGED <<config, caches, isStarted, running, due, executing, served>>

\* a DataUtil method called directly
CodecCall(name, input, output) ==
    /\ Entered(name, input)
    /\ ret' = output
    /\ NoActuation
    /\ steps' = << >>
    /\ forwarded' = << >>
    /\ delivered' = << >>
    /\ repeat' = 0
    /\ UNCHANGED <<caches, lifecycle>>

SensorDataToJson(data) ==
    CodecCall("sensorDataToJson", data, sensorDataToJson(data))

ActuatorDataToJson(data) ==
    CodecCall("actuatorDataToJson", data, actuatorDataToJson(data))

SystemPerformanceDataToJson(data) ==
    CodecCall("systemPerformanceDataToJson", data, systemPerformanceDataToJson(data))

JsonToSensorData(jsonData) ==
    CodecCall("jsonToSensorData", jsonData, jsonToSensorData(jsonData))

JsonToActuatorData(jsonData) ==
    CodecCall("jsonToActuatorData", jsonData, jsonToActuatorData(jsonData))

JsonToSystemPerformanceData(jsonData) ==
    CodecCall("jsonToSystemPerformanceData", jsonData, jsonToSystemPerformanceData(jsonData))

\* an operation of the connector called directly
ConnectorCall(name, data, m) ==
    /\ mqttClient
    /\ Entered(name, data)
    /\ NoActuation
    /\ connection' = m.connection
    /\ subscriptions' = m.subscriptions
    /\ forwarded' = << >>
    /\ delivered' = << >>
    /\ repeat' = 0
    /\ UNCHANGED <<caches, isStarted, running>>

\* MqttClientConnector.connectClient
ConnectClient(reachable) ==
    /\ ConnectorCall("connectClient", None,
            connectClient([connection |-> connection, subscriptions |-> subscriptions],
                          reachable))
    /\ ret' = IF reachable THEN RetTrue ELSE RetFalse
    /\ steps' = <<Step("mc", "connect", "")>> \o
                (IF reachable THEN <<Step("mc", "loop_start", "")>> ELSE NoSteps)

\* MqttClientConnector.disconnectClient
DisconnectClient ==
    /\ ConnectorCall("disconnectClient", None,
            disconnectClient([connection |-> connection, subscriptions |-> subscriptions]))
    /\ ret' = RetTrue
    /\ steps' = <<Step("mc", "loop_stop", ""), Step("mc", "disconnect", "")>>

\* MqttClientConnector.subscribeToTopic, called without a callback: no
\* subscription is looked up, mc.subscribe is called every time and its
\* result code is not read
SubscribeToTopic(resource) ==
    /\ (op = "subscribeToTopic" /\ arg = [resource |-> resource]) => repeat < MaxRepeat
    /\ mqttClient
    /\ Entered("subscribeToTopic", [resource |-> resource])
    /\ NoActuation
    /\ connection' = subscribeToTopic([connection |-> connection,
                          subscriptions |-> subscriptions], resource).connection
    /\ subscriptions' = subscribeToTopic([connection |-> connection,
                          subscriptions |-> subscriptions], resource).subscriptions
    /\ ret' = IF Truthy(resource) THEN RetTrue ELSE RetFalse
    /\ steps' = IF Truthy(resource) THEN <<Step("mc", "subscribe", resource)>> ELSE NoSteps
    /\ forwarded' = << >>
    /\ delivered' = << >>
    /\ repeat' = IF op = "subscribeToTopic" /\ arg = [resource |-> resource]
                 THEN repeat + 1 ELSE 1
    /\ UNCHANGED <<caches, isStarted, running>>

\* MqttClientConnector.unsubscribeFromTopic
UnsubscribeFromTopic(resource) ==
    /\ ConnectorCall("unsubscribeFromTopic", [resource |-> resource],
            unsubscribeFromTopic([connection |-> connection,
                                  subscriptions |-> subscriptions], resource))
    /\ ret' = IF Truthy(resource) THEN RetTrue ELSE RetFalse
    /\ steps' = IF Truthy(resource) THEN <<Step("mc", "unsubscribe", resource)>> ELSE NoSteps

\* MqttClientConnector.publishMessage
PublishMessage(resource, msg, acked) ==
    /\ ConnectorCall("publishMessage", [resource |-> resource, msg |-> msg],
            [connection |-> connection, subscriptions |-> subscriptions])
    /\ ret' = publishMessage(resource, msg, acked)
    /\ steps' = IF Truthy(resource) /\ TruthyText(msg)
                THEN <<Step("mc", "publish", resource),
                       Step("msgInfo", "wait_for_publish", "")>>
                ELSE NoSteps

(***************************************************************************)
(* The state after DeviceDataManager.__init__.                             *)
(***************************************************************************)
InitAll(floors, ceilings, managers) ==
    /\ handleTempChangeOnDevice \in BOOLEAN
    /\ triggerHvacTempFloor \in floors
    /\ triggerHvacTempCeiling \in ceilings
    /\ mqttClient \in BOOLEAN
    /\ sysPerfMgr \in managers
    /\ sensorAdapterMgr \in managers
    /\ locationID = DeviceLocation
    /\ \E useEmulator \in BOOLEAN, failAt \in 0..3, sensorFailAt \in 0..3 :
          LET t == ActuatorTasksAfterInit(useEmulator, failAt)
              a == IF sensorAdapterMgr THEN SensorTasksAfterInit(useEmulator, sensorFailAt)
                   ELSE NoSensorTasks
          IN
          /\ humidifierActuator = t.humidifierActuator
          /\ hvacActuator = t.hvacActuator
          /\ ledDisplayActuator = t.ledDisplayActuator
          /\ humidityAdapter = a.humidityAdapter
          /\ pressureAdapter = a.pressureAdapter
          /\ tempAdapter = a.tempAdapter
          /\ arg = [useEmulator |-> useEmulator, failAt |-> failAt,
                    sensorFailAt |-> sensorFailAt]
    /\ latestSensorDataCache = << >>
    /\ latestActuatorDataCache = << >>
    /\ latestSystemPerfDataCache = << >>
    /\ op = "__init__"
    /\ ret = None
    /\ sent = << >>
    /\ invoked = << >>
    /\ published = << >>
    /\ prevIssued = << >>
    /\ connection = CS_NEW
    /\ subscriptions = {}
    /\ isStarted = FALSE
    /\ running = FALSE
    /\ steps = << >>
    /\ forwarded = << >>
    /\ delivered = << >>
    /\ repeat = 0
    /\ due = [job \in Jobs |-> 0]
    /\ executing = [job \in Jobs |-> EmptyBag]
    /\ mainThread = "idle"
    /\ served = 0
    /\ dataMsgListener = FALSE
    /\ observeRequests = {}
    /\ observing = {}

\* both telemetry managers enabled (enableSystemPerformance, enableSensing)
InitWith(floors, ceilings) == InitAll(floors, ceilings, {TRUE}) /\ coapClient = TRUE

\* the thresholds left at their defaults
Init == InitWith({DefaultTempFloor}, {DefaultTempCeiling})

\* the thresholds set by the configuration file
InitCtl == InitWith(FloorChoices, CeilingChoices)

\* the control rule and the MQTT client enabled
InitSched == Init /\ handleTempChangeOnDevice /\ mqttClient

\* every combination of enabled components, thresholds at their defaults
InitLife == InitAll({DefaultTempFloor}, {DefaultTempCeiling}, BOOLEAN) /\ coapClient = TRUE

\* the CoAP connector constructed next to a coordinator with default settings:
\* _initClient leaves coapClient None when HelperClient raises
InitCoap ==
    /\ InitAll({DefaultTempFloor}, {DefaultTempCeiling}, {TRUE})
    /\ handleTempChangeOnDevice
    /\ ~mqttClient
    /\ arg.useEmulator = FALSE
    /\ arg.failAt = 0
    /\ arg.sensorFailAt = 0
    /\ coapClient \in BOOLEAN

(***************************************************************************)
(* Inputs.                                                                 *)
(***************************************************************************)
TEMP_SENSOR_NAME     == "TEMP_SENSOR_NAME"
HUMIDITY_SENSOR_NAME == "HUMIDITY_SENSOR_NAME"

\* readings for the control rule: every type, location and temperature
RuleReadings ==
    {SensorData(TEMP_SENSOR_NAME, t, l, v) : t \in SensorTypes, l \in Locations, v \in Temps}

\* readings for the caches: named, unnamed and null-named ones
CacheReadings ==
    {SensorData(n, t, DeviceLocation, v) :
        n \in {TEMP_SENSOR_NAME, HUMIDITY_SENSOR_NAME, "", NullName},
        t \in {TEMP_SENSOR_TYPE, HUMIDITY_SENSOR_TYPE},
        v \in {DefaultTempCeiling, DefaultTempCeiling + 1}}

PerfReadings ==
    {SystemPerformanceData(n, c, 0) : n \in {SYSTEM_PERF_NAME, "", NullName}, c \in 0..MaxUtil}

Responses ==
    {[ActuatorData(HVAC_ACTUATOR_TYPE) EXCEPT
        !.name = n, !.locationID = DeviceLocation, !.command = c,
        !.isResponse = TRUE, !.statusCode = st] :
        n \in {HVAC_ACTUATOR_NAME, "", NullName}, c \in {COMMAND_ON},
        st \in StatusCodes}

Commands ==
    {[ActuatorData(t) EXCEPT
        !.name = HVAC_ACTUATOR_NAME, !.locationID = l, !.command = c,
        !.value = DefaultTempFloor, !.isResponse = r] :
        t \in ActuatorTypes, l \in Locations, c \in {COMMAND_ON, COMMAND_OFF},
        r \in BOOLEAN}

PRESSURE_SENSOR_NAME == "PRESSURE_SENSOR_NAME"

\* the readings one firing polls from the humidity, pressure and temperature
\* backends; a backend leaves the location of its reading unset
Polls ==
    {<<SensorData(HUMIDITY_SENSOR_NAME, HUMIDITY_SENSOR_TYPE, NOT_SET, h),
       SensorData(PRESSURE_SENSOR_NAME, PRESSURE_SENSOR_TYPE, NOT_SET, 0),
       SensorData(TEMP_SENSOR_NAME, TEMP_SENSOR_TYPE, NOT_SET, t)>> :
        h \in 0..MaxUtil, t \in {DefaultTempCeiling, DefaultTempCeiling + 1}}

\* firings in which one backend raises in generateTelemetry
FailingPolls ==
    {[p EXCEPT ![i] = Raised] : p \in Polls, i \in 1..3}

\* the commands a gateway sends
InboundCommands ==
    {[ActuatorData(t) EXCEPT
        !.name = HVAC_ACTUATOR_NAME, !.locationID = l, !.command = COMMAND_ON,
        !.value = DefaultTempFloor, !.isResponse = r] :
        t \in {HVAC_ACTUATOR_TYPE, "UNKNOWN_ACTUATOR_TYPE"}, l \in Locations,
        r \in BOOLEAN}

\* message texts: encoded commands, a dictionary with one key, a text that
\* is not JSON and the empty text
InboundTexts ==
    {actuatorDataToJson(c) : c \in InboundCommands} \cup
    {[text |-> [command |-> COMMAND_ON]], Malformed, EmptyText}

Payloads == {Utf8(t) : t \in InboundTexts} \cup {BadBytes}

Topics ==
    {ResourceValue(CDA_ACTUATOR_CMD_RESOURCE), ResourceValue(CDA_MGMT_STATUS_CMD_RESOURCE),
     "PIOT/ConstrainedDevice/Unknown", ""}

PublishResources == {CDA_SENSOR_MSG_RESOURCE, CDA_ACTUATOR_RESPONSE_MSG_RESOURCE, NullName}

PublishTexts ==
    {sensorDataToJson(SensorData(TEMP_SENSOR_NAME, TEMP_SENSOR_TYPE, DeviceLocation,
                                 DefaultTempCeiling)),
     EmptyText, None}

\* names for the codec: a plain one, one with an apostrophe and the two
\* Python boolean words
CodecNames == {TEMP_SENSOR_NAME, "it's", "True", "False"}

CodecSensorRecords ==
    {SensorData(n, TEMP_SENSOR_TYPE, DeviceLocation, v) : n \in CodecNames, v \in 0..MaxUtil}

CodecActuatorRecords ==
    {[ActuatorData(HVAC_ACTUATOR_TYPE) EXCEPT !.name = n, !.command = c] :
        n \in CodecNames, c \in {COMMAND_ON, COMMAND_OFF}}

CodecPerfRecords ==
    {SystemPerformanceData(n, c, 0) : n \in CodecNames, c \in 0..MaxUtil}

\* JSON objects with a key no record has, and with keys missing
PartialObjects ==
    {[name |-> n, unknownKey |-> 1] : n \in CodecNames} \cup
    {[value |-> 1], [cpuUtil |-> 1], [command |-> COMMAND_ON]}

\* texts that are a well-formed JSON object
ObjectTexts ==
    {[text |-> d] : d \in CodecSensorRecords \cup CodecActuatorRecords \cup
                          CodecPerfRecords \cup PartialObjects}

\* every text handed to a decoder
CodecTexts == ObjectTexts \cup {Malformed, JsonNumber, JsonArray, EmptyText, None}

\* the readings the backends return while the threads interleave
SchedPolls ==
    {p \in Polls : p[1].value = 0 /\ p[3].value = DefaultTempCeiling + 1}

\* one reading of each kind for the relay
RelaySensorReading ==
    SensorData(TEMP_SENSOR_NAME, TEMP_SENSOR_TYPE, DeviceLocation, DefaultTempCeiling + 1)

RelayPerfReading == SystemPerformanceData(SYSTEM_PERF_NAME, MaxUtil, 0)

RelayResponse ==
    [ActuatorData(HVAC_ACTUATOR_TYPE) EXCEPT
        !.name = HVAC_ACTUATOR_NAME, !.locationID = DeviceLocation,
        !.command = COMMAND_ON, !.isResponse = TRUE]

(***************************************************************************)
(* Specifications.                                                         *)
(***************************************************************************)
\* the three ingest operations of the coordinator
Next ==
    \/ \E d \in CacheReadings \cup {None}, st \in StatusCodes : HandleSensorMessage(d, st)
    \/ \E d \in PerfReadings \cup {None} : HandleSystemPerformanceMessage(d)
    \/ \E d \in Responses \cup {None} : HandleActuatorCommandResponse(d)

Spec == Init /\ [][Next]_vars

(***************************************************************************)
(* CoapClientConnector and the HelperClient it wraps.                      *)
(***************************************************************************)
RequestMethods == {"discover", "get", "post", "put", "delete"}

\* the connector's method for a request method of the client
SendOp(method) ==
    CASE method = "discover" -> "sendDiscoveryRequest"
      [] method = "get"      -> "sendGetRequest"
      [] method = "post"     -> "sendPostRequest"
      [] method = "put"      -> "sendPutRequest"
      [] method = "delete"   -> "sendDeleteRequest"

\* a request passes the argument checks made before the try block
RequestAccepted(method, resource, payload) ==
    /\ method # "discover" => Truthy(resource)
    /\ method \in {"post", "put"} => TruthyText(payload)

\* the send methods mutated: a request without a response counts as failed
sendRequest_CheckResponse(method, resource, payload, raises, response) ==
    IF RequestAccepted(method, resource, payload)
    THEN [ret |-> IF coapClient /\ ~raises /\ response # None THEN RetTrue ELSE RetFalse,
          steps |-> <<Step("coapClient", method, resource)>>]
    ELSE [ret |-> RetFalse, steps |-> NoSteps]

\* sendDiscoveryRequest, sendGetRequest, sendPostRequest, sendPutRequest,
\* sendDeleteRequest: one call on self.coapClient inside try; the call raises
\* when the client does (raises) or when coapClient is None; the response
\* is not read
sendRequest(method, resource, payload, raises, response) ==
    IF RequestAccepted(method, resource, payload)
    THEN [ret |-> IF coapClient /\ ~raises THEN RetTrue ELSE RetFalse,
          steps |-> <<Step("coapClient", method, resource)>>]
    ELSE [ret |-> RetFalse, steps |-> NoSteps]

\* an operation of the CoAP connector: nothing of the coordinator changes
CoapEntered(name, data) ==
    /\ op' = name
    /\ arg' = data
    /\ prevIssued' = [i \in DOMAIN sent |-> sent[i].command]
    /\ forwarded' = << >>
    /\ repeat' = 0
    /\ UNCHANGED <<settings, caches, lifecycle, sched>>

CoapCalled(name, data) ==
    /\ CoapEntered(name, data)
    /\ NoActuation
    /\ delivered' = << >>

SendRequest(method, resource, payload, raises, response) ==
    LET r == sendRequest(method, resource, payload, raises, response) IN
    /\ CoapCalled(SendOp(method),
                  [resource |-> IF method = "discover" THEN NullName ELSE resource,
                   payload |-> IF method \in {"post", "put"} THEN payload ELSE None,
                   raises |-> raises, response |-> response])
    /\ ret' = r.ret
    /\ steps' = r.steps
    /\ UNCHANGED coap

\* CoapClientConnector.setDataMessageListener
SetDataMessageListener(listener) ==
    /\ CoapCalled("setDataMessageListener", [listener |-> listener])
    /\ dataMsgListener' = (dataMsgListener \/ listener)
    /\ ret' = IF listener THEN RetTrue ELSE RetFalse
    /\ steps' = NoSteps
    /\ UNCHANGED <<coapClient, observeRequests, observing>>

\* CoapClientConnector.startObserver: coapClient.observe registers the
\* callback, then the resource is recorded
StartObserver(resource, raises) ==
    LET started == Truthy(resource) /\ coapClient /\ ~raises IN
    /\ CoapCalled("startObserver", [resource |-> resource, raises |-> raises])
    /\ observing' = IF started THEN observing \cup {resource} ELSE observing
    /\ observeRequests' =
          IF started THEN observeRequests \cup {resource} ELSE observeRequests
    /\ ret' = IF started THEN RetTrue ELSE RetFalse
    /\ steps' = IF Truthy(resource) THEN <<Step("coapClient", "observe", resource)>>
                ELSE NoSteps
    /\ UNCHANGED <<coapClient, dataMsgListener>>

\* CoapClientConnector.stopObserver: the resource is taken off the
\* connector's record; no call is made on the client
StopObserver(resource) ==
    /\ CoapCalled("stopObserver", [resource |-> resource])
    /\ observeRequests' = observeRequests \ {resource}
    /\ ret' = IF Truthy(resource) /\ resource \in observeRequests
              THEN RetTrue ELSE RetFalse
    /\ steps' = NoSteps
    /\ UNCHANGED <<coapClient, dataMsgListener, observing>>

\* observeCallback, called by the HelperClient for a notification on a
\* resource it holds a callback for; the coordinator is the listener
ObserveCallback(resource, payload, status) ==
    LET forward == TruthyText(payload) /\ dataMsgListener
        r == IF forward THEN handleIncomingMessage(resource, payload, status)
             ELSE NoCommand
    IN
    /\ resource \in observing
    /\ CoapEntered("observeCallback", [resource |-> resource, payload |-> payload])
    /\ delivered' = IF forward THEN <<[resource |-> resource, msg |-> payload]>> ELSE << >>
    /\ sent' = r.sent
    /\ invoked' = r.calls
    /\ published' = << >>
    /\ ret' = None
    /\ steps' = NoSteps
    /\ UNCHANGED coap

CoapResources == {CDA_ACTUATOR_CMD_RESOURCE, CDA_SENSOR_MSG_RESOURCE}

CoapResponses == {None, [code |-> "2.05"]}

\* the CoAP connector used directly, with notifications arriving
NextCoap ==
    \/ \E m \in RequestMethods, r \in CoapResources \cup {NullName}, p \in PublishTexts,
          raises \in BOOLEAN, response \in CoapResponses :
          SendRequest(m, r, p, raises, response)
    \/ \E listener \in BOOLEAN : SetDataMessageListener(listener)
    \/ \E r \in CoapResources \cup {NullName}, raises \in BOOLEAN : StartObserver(r, raises)
    \/ \E r \in CoapResources \cup {NullName} : StopObserver(r)
    \/ \E r \in CoapResources, p \in InboundTexts \cup {None}, st \in StatusCodes :
          ObserveCallback(r, p, st)

SpecCoap == InitCoap /\ [][NextCoap]_vars

\* DeviceDataManager.getLatest...FromCache: a lookup by name
CacheLookup(name, key, found) ==
    /\ Called(name, [name |-> key])
    /\ NoActuation
    /\ ret' = found
    /\ UNCHANGED caches

GetLatestSensorDataFromCache(name) ==
    CacheLookup("getLatestSensorDataFromCache", name, getLatestSensorDataFromCache(name))

GetLatestActuatorDataResponseFromCache(name) ==
    CacheLookup("getLatestActuatorDataResponseFromCache", name,
                getLatestActuatorDataResponseFromCache(name))

GetLatestSystemPerformanceDataFromCache(name) ==
    CacheLookup("getLatestSystemPerformanceDataFromCache", name,
                getLatestSystemPerformanceDataFromCache(name))

\* the three ingest operations and the three cache lookups
NextFrame ==
    \/ \E d \in CacheReadings \cup {None} : HandleSensorMessage(d, 0)
    \/ \E d \in PerfReadings \cup {None} : HandleSystemPerformanceMessage(d)
    \/ \E d \in Responses \cup {None} : HandleActuatorCommandResponse(d)
    \/ \E n \in {TEMP_SENSOR_NAME, HUMIDITY_SENSOR_NAME, NullName} :
          GetLatestSensorDataFromCache(n)
    \/ \E n \in {HVAC_ACTUATOR_NAME, NullName} : GetLatestActuatorDataResponseFromCache(n)
    \/ \E n \in {SYSTEM_PERF_NAME, ""} : GetLatestSystemPerformanceDataFromCache(n)

SpecFrame == InitSched /\ [][NextFrame]_vars

\* sensor ingest with the control rule
NextCtl ==
    \E d \in RuleReadings \cup {None}, st \in StatusCodes : HandleSensorMessage(d, st)

SpecCtl == InitCtl /\ [][NextCtl]_vars

\* commands arriving at the actuator manager
NextAct ==
    \/ \E d \in Commands \cup {None}, st \in StatusCodes : SendActuatorCommand(d, st)
    \/ \E d \in Commands \cup {None}, st \in StatusCodes : HandleActuatorCommandMessage(d, st)

SpecAct == Init /\ [][NextAct]_vars

\* messages arriving from the broker
NextIn ==
    \/ \E t \in Topics, p \in Payloads, st \in StatusCodes : OnMessage(t, p, st)
    \/ \E r \in ResourceNames, m \in InboundTexts \cup {None}, st \in StatusCodes :
          HandleIncomingMessage(r, m, st)

SpecIn == Init /\ [][NextIn]_vars

\* the connector used directly
NextMqtt ==
    \/ \E reachable \in BOOLEAN : ConnectClient(reachable)
    \/ DisconnectClient
    \/ \E r \in PublishResources, m \in PublishTexts, acked \in BOOLEAN :
          PublishMessage(r, m, acked)

SpecMqtt == Init /\ [][NextMqtt]_vars

\* the subscriptions of the connector used directly
NextSub ==
    \/ \E reachable \in BOOLEAN : ConnectClient(reachable)
    \/ DisconnectClient
    \/ \E r \in ResourceNames \cup {NullName} : SubscribeToTopic(r)
    \/ \E r \in ResourceNames \cup {NullName} : UnsubscribeFromTopic(r)

SpecSub == Init /\ [][NextSub]_vars

\* the lifecycle of the coordinator
NextLife ==
    \/ \E reachable \in BOOLEAN : StartManager(reachable)
    \/ StopManager

SpecLife == InitLife /\ [][NextLife]_vars

\* the lifecycle and the firings of the two schedulers
NextTel ==
    \/ \E reachable \in BOOLEAN : StartManager(reachable)
    \/ StopManager
    \/ \E polled \in Polls, st \in StatusCodes : SensorHandleTelemetry(polled, st)
    \/ \E cpu \in 0..MaxUtil, mem \in 0..MaxUtil : SystemPerformanceHandleTelemetry(cpu, mem)

SpecTel == InitLife /\ [][NextTel]_vars

\* commands arriving while the caches hold readings
NextCmd ==
    \/ \E st \in StatusCodes : HandleSensorMessage(RelaySensorReading, st)
    \/ HandleActuatorCommandResponse(RelayResponse)
    \/ \E r \in {CDA_ACTUATOR_CMD_RESOURCE, CDA_SENSOR_MSG_RESOURCE},
          m \in InboundTexts \cup {None}, st \in StatusCodes :
          HandleIncomingMessage(r, m, st)

SpecCmd == Init /\ [][NextCmd]_vars

\* the codec used directly
NextCodec ==
    \/ \E d \in CodecSensorRecords \cup {None} : SensorDataToJson(d)
    \/ \E d \in CodecActuatorRecords \cup {None} : ActuatorDataToJson(d)
    \/ \E d \in CodecPerfRecords \cup {None} : SystemPerformanceDataToJson(d)
    \/ \E t \in CodecTexts : JsonToSensorData(t)
    \/ \E t \in CodecTexts : JsonToActuatorData(t)
    \/ \E t \in CodecTexts : JsonToSystemPerformanceData(t)

SpecCodec == Init /\ [][NextCodec]_vars

\* firings of the sensor scheduler with backends that may fail
NextPoll ==
    \/ \E reachable \in BOOLEAN : StartManager(reachable)
    \/ \E polled \in Polls \cup FailingPolls, st \in StatusCodes :
          SensorHandleTelemetry(polled, st)

SpecPoll == InitLife /\ [][NextPoll]_vars

\* the schedulers, their worker threads, the network loop and the thread
\* that starts and stops the coordinator, interleaved
NextSched ==
    \/ \E reachable \in BOOLEAN : mainThread = "idle" /\ StartManager(reachable)
    \/ StopManagerEnter
    \/ StopManagerNext
    \/ StopManagerReturn
    \/ \E job \in Jobs : IntervalElapses(job)
    \/ \E job \in Jobs : ProcessJobs(job)
    \/ \E e \in BagToSet(executing[SensorJob]), polled \in SchedPolls : TelemetryPoll(e, polled)
    \/ \E e \in BagToSet(executing[SensorJob]) : IngestEnter(e)
    \/ \E e \in BagToSet(executing[SensorJob]), st \in StatusCodes : IngestLeave(e, st)
    \/ \E e \in BagToSet(executing[SystemPerfJob]) : PerfTelemetry(e, 0, 0)
    \/ mainThread = "idle" /\ OnMessage(ResourceValue(CDA_ACTUATOR_CMD_RESOURCE),
                                        Utf8(actuatorDataToJson(RelayResponse)), 0)

SpecSched == InitSched /\ [][NextSched]_vars

\* the readings of the n-th poll of backends whose values rise by one a poll
SeriesPoll(n) ==
    <<SensorData(HUMIDITY_SENSOR_NAME, HUMIDITY_SENSOR_TYPE, NOT_SET, n),
      SensorData(PRESSURE_SENSOR_NAME, PRESSURE_SENSOR_TYPE, NOT_SET, n),
      SensorData(TEMP_SENSOR_NAME, TEMP_SENSOR_TYPE, NOT_SET, n)>>

\* the sensor manager started and never stopped, the backends returning a
\* rising series
InitFair ==
    /\ Init
    /\ ~mqttClient
    /\ arg.useEmulator = FALSE
    /\ arg.failAt = 0
    /\ arg.sensorFailAt = 0

StartSensing == mainThread = "idle" /\ ~running /\ StartManager(TRUE)

SeriesPolled ==
    \E e \in BagToSet(executing[SensorJob]) :
        served < MaxServed /\ TelemetryRun(e, SeriesPoll(served + 1), served + 1)

CacheWritten == \E e \in BagToSet(executing[SensorJob]) : IngestEnter(e)

IngestReturned == \E e \in BagToSet(executing[SensorJob]) : IngestLeave(e, 0)

NextFair ==
    \/ StartSensing
    \/ served < MaxServed /\ IntervalElapses(SensorJob)
    \/ ProcessJobs(SensorJob)
    \/ SeriesPolled
    \/ CacheWritten
    \/ IngestReturned

\* the scheduler thread and the worker threads are scheduled again and again,
\* and the interval keeps passing
SpecFair ==
    /\ InitFair
    /\ [][NextFair]_vars
    /\ WF_vars(served < MaxServed /\ IntervalElapses(SensorJob))
    /\ WF_vars(ProcessJobs(SensorJob))
    /\ WF_vars(SeriesPolled)
    /\ WF_vars(CacheWritten)
    /\ WF_vars(IngestReturned)

\* the readings of firings whose temperatures differ
OverlapPolls == {p \in Polls : p[1].value = 0}

\* the sensor telemetry job alone, its executions overlapping
NextOverlap ==
    \/ mainThread = "idle" /\ StartManager(TRUE)
    \/ IntervalElapses(SensorJob)
    \/ ProcessJobs(SensorJob)
    \/ \E e \in BagToSet(executing[SensorJob]), polled \in OverlapPolls :
          TelemetryPoll(e, polled)
    \/ \E e \in BagToSet(executing[SensorJob]) : IngestEnter(e)
    \/ \E e \in BagToSet(executing[SensorJob]) : IngestLeave(e, 0)

SpecOverlap == InitSched /\ [][NextOverlap]_vars

\* the ingest operations while the broker connection comes and goes
NextRelay ==
    \/ \E reachable \in BOOLEAN : ConnectClient(reachable)
    \/ DisconnectClient
    \/ \E d \in {RelaySensorReading, None}, st \in StatusCodes : HandleSensorMessage(d, st)
    \/ \E d \in {RelayPerfReading, None} : HandleSystemPerformanceMessage(d)
    \/ \E d \in {RelayResponse, None} : HandleActuatorCommandResponse(d)

SpecRelay == Init /\ [][NextRelay]_vars

(***************************************************************************)
(* Properties of the control rule (SpecCtl).                               *)
(***************************************************************************)
\* a handleSensorMessage call on a reading the control rule applies to
QualifyingCall ==
    /\ op = "handleSensorMessage"
    /\ arg # None
    /\ handleTempChangeOnDevice
    /\ arg.typeID = TEMP_SENSOR_TYPE

RuleCommand(v) ==
    IF v > triggerHvacTempCeiling \/ v < triggerHvacTempFloor
    THEN COMMAND_ON ELSE COMMAND_OFF

RuleValue(v) ==
    IF v > triggerHvacTempCeiling THEN triggerHvacTempCeiling
    ELSE IF v < triggerHvacTempFloor THEN triggerHvacTempFloor
    ELSE 0

\* C1: with local temperature handling enabled and floor < ceiling, a
\* temperature reading of value v makes handleSensorMessage hand the actuator
\* manager one command: ON with value ceiling if v > ceiling, ON with value
\* floor if v < floor, OFF with value 0 otherwise (v = floor and v = ceiling
\* included).
C1_ControlRuleResult ==
    (QualifyingCall /\ triggerHvacTempFloor < triggerHvacTempCeiling)
    => /\ Len(sent) = 1
       /\ sent[1].command = RuleCommand(arg.value)
       /\ sent[1].value = RuleValue(arg.value)

C1_Witness ==
    /\ QualifyingCall
    /\ triggerHvacTempFloor < triggerHvacTempCeiling
    /\ arg.value = triggerHvacTempCeiling
    /\ Len(sent) = 1
    /\ sent[1].command = COMMAND_OFF
    /\ sent[1].value = 0

\* C2: handleSensorMessage hands a command to sendActuatorCommand only if
\* local temperature handling is enabled and the reading is of temperature
\* type; for any other reading no command is issued and no backend invoked.
C2_ControlRuleGating ==
    (op = "handleSensorMessage" /\ ~QualifyingCall)
    => (sent = << >> /\ invoked = << >>)

C2_Witness ==
    /\ op = "handleSensorMessage"
    /\ arg # None
    /\ handleTempChangeOnDevice
    /\ arg.typeID = PRESSURE_SENSOR_TYPE
    /\ arg.locationID = locationID
    /\ ret = RetTrue
    /\ sent = << >>

\* C3: every command the control rule produces has the HVAC actuator type and
\* name, is not flagged as a response, and carries the locationID of the
\* temperature reading that triggered it.
C3_CommandIdentity ==
    op = "handleSensorMessage"
    => \A i \in DOMAIN sent :
          /\ sent[i].typeID = HVAC_ACTUATOR_TYPE
          /\ sent[i].name = HVAC_ACTUATOR_NAME
          /\ ~sent[i].isResponse
          /\ sent[i].locationID = arg.locationID

C3_Witness ==
    /\ QualifyingCall
    /\ arg.locationID = OtherLocation
    /\ Len(sent) = 1
    /\ sent[1].locationID = OtherLocation
    /\ sent[1].typeID = HVAC_ACTUATOR_TYPE

\* C4: no hysteresis: whatever the state before it (earlier readings, the
\* commands issued before), every handleSensorMessage call on a qualifying
\* reading issues exactly one command, determined by the reading's value and
\* the thresholds alone.
C4_NoHysteresis ==
    [][ QualifyingCall'
        => /\ Len(sent') = 1
           /\ sent'[1].command = RuleCommand(arg'.value)
           /\ sent'[1].value = RuleValue(arg'.value)
           /\ sent'[1].locationID = arg'.locationID ]_vars

\* two successive in-range readings: the second call issued OFF again
C4_Witness ==
    /\ QualifyingCall
    /\ prevIssued = <<COMMAND_OFF>>
    /\ Len(sent) = 1
    /\ sent[1].command = COMMAND_OFF
    /\ Len(invoked) = 1

(***************************************************************************)
(* Properties of the caches (Spec).                                        *)
(***************************************************************************)
\* C5: handleSensorMessage(None) returns False, leaves the three caches
\* unchanged, issues no actuator command and attempts no publish.
C5_NullSensorRejected ==
    [][ (op' = "handleSensorMessage" /\ arg' = None)
        => /\ ret' = RetFalse
           /\ UNCHANGED caches
           /\ sent' = << >>
           /\ invoked' = << >>
           /\ published' = << >> ]_vars

C5_Witness ==
    /\ op = "handleSensorMessage"
    /\ arg = None
    /\ ret = RetFalse
    /\ mqttClient
    /\ DOMAIN latestSensorDataCache # {}
    /\ DOMAIN latestSystemPerfDataCache # {}
    /\ DOMAIN latestActuatorDataCache # {}

CacheNames ==
    {TEMP_SENSOR_NAME, HUMIDITY_SENSOR_NAME, SYSTEM_PERF_NAME, HVAC_ACTUATOR_NAME}

\* an ingest operation that returned True
SuccessfulIngest(name) ==
    /\ op = name
    /\ arg # None
    /\ ret = RetTrue

\* C6 as stated: after a successful ingest, the lookup by the name of the
\* ingested reading returns that reading, for every name.
C6_LookupReturnsLastIngest ==
    /\ SuccessfulIngest("handleSensorMessage")
       => getLatestSensorDataFromCache(arg.name) = arg
    /\ SuccessfulIngest("handleSystemPerformanceMessage")
       => getLatestSystemPerformanceDataFromCache(arg.name) = arg
    /\ SuccessfulIngest("handleActuatorCommandResponse")
       => getLatestActuatorDataResponseFromCache(arg.name) = arg

\* C6 amended: for every non-empty, non-null name X, each of the three
\* lookups by X changes only in a successful ingest of its kind whose reading
\* is named X, and then returns that reading: it is the most recent one
\* ingested under X, and nothing of an earlier one.
C6_LastWriteWinsNamed ==
    [][ \A n \in CacheNames :
          /\ getLatestSensorDataFromCache(n)' =
                IF SuccessfulIngest("handleSensorMessage")' /\ arg'.name = n
                THEN arg' ELSE getLatestSensorDataFromCache(n)
          /\ getLatestSystemPerformanceDataFromCache(n)' =
                IF SuccessfulIngest("handleSystemPerformanceMessage")' /\ arg'.name = n
                THEN arg' ELSE getLatestSystemPerformanceDataFromCache(n)
          /\ getLatestActuatorDataResponseFromCache(n)' =
                IF SuccessfulIngest("handleActuatorCommandResponse")' /\ arg'.name = n
                THEN arg' ELSE getLatestActuatorDataResponseFromCache(n) ]_vars

C6_Witness ==
    /\ SuccessfulIngest("handleSensorMessage")
    /\ arg.name = TEMP_SENSOR_NAME
    /\ arg.value = DefaultTempCeiling + 1
    /\ getLatestSensorDataFromCache(TEMP_SENSOR_NAME) = arg
    /\ HUMIDITY_SENSOR_NAME \in DOMAIN latestSensorDataCache
    /\ getLatestSensorDataFromCache(HUMIDITY_SENSOR_NAME).value = DefaultTempCeiling

\* C7: in every reachable state none of the three caches holds a null value
\* or an entry keyed by a null or empty name.
C7_NoNullCacheEntries ==
    /\ \A n \in DOMAIN latestSensorDataCache :
          Truthy(n) /\ latestSensorDataCache[n] # None
    /\ \A n \in DOMAIN latestActuatorDataCache :
          Truthy(n) /\ latestActuatorDataCache[n] # None
    /\ \A n \in DOMAIN latestSystemPerfDataCache :
          Truthy(n) /\ latestSystemPerfDataCache[n] # None

C7_Witness ==
    /\ SuccessfulIngest("handleSystemPerformanceMessage")
    /\ arg.name = ""
    /\ DOMAIN latestSystemPerfDataCache = {SYSTEM_PERF_NAME}
    /\ DOMAIN latestActuatorDataCache = {HVAC_ACTUATOR_NAME}

(***************************************************************************)
(* Properties of the actuator manager (SpecAct).                           *)
(***************************************************************************)
\* the task reference registered for an actuator type, if any
RegisteredBackend(typeID) ==
    CASE typeID = HUMIDIFIER_ACTUATOR_TYPE /\ humidifierActuator # NoTask
            -> "humidifierActuator"
      [] typeID = HVAC_ACTUATOR_TYPE /\ hvacActuator # NoTask
            -> "hvacActuator"
      [] typeID = LED_DISPLAY_ACTUATOR_TYPE /\ ledDisplayActuator # NoTask
            -> "ledDisplayActuator"
      [] OTHER -> NoTask

Rejected == ret = None /\ invoked = << >>

\* C8: sendActuatorCommand with a command whose locationID differs from the
\* device's configured location returns None and invokes no backend, whatever
\* the command's type.
C8_ForeignLocationRejected ==
    (op = "sendActuatorCommand" /\ arg # None /\ arg.locationID # locationID)
    => Rejected

C8_Witness ==
    /\ op = "sendActuatorCommand"
    /\ arg # None
    /\ arg.locationID = OtherLocation
    /\ ~arg.isResponse
    /\ RegisteredBackend(arg.typeID) = "hvacActuator"
    /\ Rejected

\* C9: sendActuatorCommand with a null command or a command whose isResponse
\* flag is set returns None and invokes no backend, even when location and
\* type would otherwise match.
C9_NullOrResponseRejected ==
    (op = "sendActuatorCommand" /\ (arg = None \/ arg.isResponse))
    => Rejected

C9_Witness ==
    /\ op = "sendActuatorCommand"
    /\ arg # None
    /\ arg.isResponse
    /\ arg.locationID = locationID
    /\ RegisteredBackend(arg.typeID) = "hvacActuator"
    /\ Rejected

\* C10: an accepted command (not null, not a response, for this location) is
\* routed to exactly one backend, the one registered for its typeID; when no
\* backend is registered for the type, sendActuatorCommand returns None and
\* invokes no backend.
C10_RoutedByType ==
    (op = "sendActuatorCommand" /\ arg # None /\ ~arg.isResponse
        /\ arg.locationID = locationID)
    => IF RegisteredBackend(arg.typeID) # NoTask
       THEN invoked = <<BackendCall(RegisteredBackend(arg.typeID), arg)>>
       ELSE Rejected

C10_Witness ==
    /\ op = "sendActuatorCommand"
    /\ arg # None
    /\ ~arg.isResponse
    /\ arg.locationID = locationID
    /\ arg.typeID = LED_DISPLAY_ACTUATOR_TYPE
    /\ ledDisplayActuator # NoTask
    /\ invoked = <<BackendCall("ledDisplayActuator", arg)>>
    /\ ret # None

(***************************************************************************)
(* Properties of the inbound path (SpecIn).                                *)
(***************************************************************************)
\* an inbound message was decoded and a backend executed its command
InboundExecuted ==
    /\ op \in {"onMessage", "handleIncomingMessage"}
    /\ invoked # << >>

\* C11: whenever an inbound message is decoded and the actuator manager
\* executes it and produces a response, that response is stored in the
\* coordinator's actuator-response cache under its name and, with an MQTT
\* client configured, published on the actuator-response resource.
C11_ResponseCachedAndPublished ==
    InboundExecuted =>
        /\ \E st \in StatusCodes :
              getLatestActuatorDataResponseFromCache(invoked[1].data.name) =
                  updateActuator(invoked[1].data, st)
        /\ mqttClient =>
              \E i \in DOMAIN published :
                  published[i].resource = CDA_ACTUATOR_RESPONSE_MSG_RESOURCE

(***************************************************************************)
(* Properties of the telemetry managers (SpecTel).                         *)
(***************************************************************************)
\* the periodic job of the system performance manager has just fired
PerfFiring == op = "SystemPerformanceManager.handleTelemetry"

\* C12: while the system performance manager is started, every firing of
\* its periodic job forwards a performance reading to the coordinator: after
\* the firing the performance cache holds the reading and, with an MQTT
\* client configured, a publish on the system-performance resource was made.
C12_PerfFiringForwarded ==
    PerfFiring =>
        /\ \E n \in DOMAIN latestSystemPerfDataCache :
              /\ latestSystemPerfDataCache[n].cpuUtil = arg.cpuUtil
              /\ latestSystemPerfDataCache[n].memUtil = arg.memUtil
        /\ mqttClient =>
              \E i \in DOMAIN published :
                  published[i].resource = CDA_SYSTEM_PERF_MSG_RESOURCE

\* the periodic job of the sensor manager has just fired
TelemetryFiring == op = "SensorAdapterManager.handleTelemetry"

\* the number of generateTelemetry calls the operation made on a backend
BackendPolls(backend) ==
    Cardinality({i \in DOMAIN steps :
                    steps[i].target = backend /\ steps[i].call = "generateTelemetry"})

SensorBackends == {"humidityAdapter", "pressureAdapter", "tempAdapter"}

TopicResolves(topic) == \E r \in ResourceNames : ResourceValue(r) = topic

C15_PublishNotConnected ==
    (op = "publishMessage" /\ connection \in {CS_NEW, CS_FAILED, CS_DISCONNECTED}) =>
        ret = RetFalse

\* a publish of a non-empty message on a resource after disconnectClient:
\* the paho client was called and the call came back False
C15_Witness ==
    /\ op = "publishMessage"
    /\ connection = CS_DISCONNECTED
    /\ Truthy(arg.resource)
    /\ TruthyText(arg.msg)
    /\ \E i \in DOMAIN steps : steps[i].call = "publish"
    /\ ret = RetFalse

(***************************************************************************)
(* Properties of the lifecycle (SpecLife).                                 *)
(***************************************************************************)
\* positions in steps of the calls of one kind
StepsOf(targets, calls) ==
    {i \in DOMAIN steps : steps[i].target \in targets /\ steps[i].call \in calls}

Unsubscribes  == StepsOf({"mqttClient"}, {"unsubscribeFromTopic"})
Disconnects   == StepsOf({"mqttClient"}, {"disconnectClient"})
ManagerStops  == StepsOf({"sysPerfMgr", "sensorAdapterMgr"}, {"stopManager"})

\* every position of the first set precedes every position of the second
Before(first, second) == \A i \in first, j \in second : i < j

\* C16 as stated: stopManager first unsubscribes from the command and
\* management-status topics, then disconnects the MQTT client, and only then
\* stops the sensor manager and the system performance manager.
C16_MqttReleasedBeforeSchedulers ==
    op = "stopManager" =>
        /\ Before(Unsubscribes, Disconnects)
        /\ Before(Disconnects, ManagerStops)
        /\ Before(Unsubscribes, ManagerStops)

\* C16 amended: stopManager first stops the system performance manager, then
\* the sensor manager, and only then unsubscribes from the two command
\* topics and disconnects the MQTT client.
C16_SchedulersStoppedBeforeMqtt ==
    op = "stopManager" =>
        /\ Before(StepsOf({"sysPerfMgr"}, {"stopManager"}),
                  StepsOf({"sensorAdapterMgr"}, {"stopManager"}))
        /\ Before(ManagerStops, Unsubscribes)
        /\ Before(Unsubscribes, Disconnects)
        /\ {steps[i].resource : i \in Unsubscribes} \subseteq
              {CDA_ACTUATOR_CMD_RESOURCE, CDA_MGMT_STATUS_CMD_RESOURCE}

\* a stop of a coordinator with all three components enabled, after a start
C16_Witness ==
    /\ op = "stopManager"
    /\ mqttClient /\ sysPerfMgr /\ sensorAdapterMgr
    /\ Cardinality(ManagerStops) = 2
    /\ Cardinality(Unsubscribes) = 2
    /\ Cardinality(Disconnects) = 1
    /\ connection = CS_DISCONNECTED
    /\ \E i \in DOMAIN steps : steps[i].target = "sysPerfMgr.scheduler"

\* the calls startManager made on the MQTT client, in order
MqttSteps == SelectSeq(steps, LAMBDA s : s.target = "mqttClient")

\* the scheduler starts and shutdowns the operation caused
SchedulerSteps ==
    SelectSeq(steps, LAMBDA s : s.target \in {"sysPerfMgr.scheduler",
                                              "sensorAdapterMgr.scheduler"})

\* C17: calling startManager twice in a row leaves the system as calling it
\* once does: the second call makes no broker connection attempt, no
\* subscription and starts no scheduler; the second of two stopManager calls
\* in a row changes nothing either.
C17_LifecycleIdempotent ==
    /\ (op = "startManager" /\ repeat >= 2) =>
          /\ MqttSteps = << >>
          /\ SchedulerSteps = << >>
    /\ (op = "stopManager" /\ repeat >= 2) =>
          /\ connection # CS_CONNECTED
          /\ subscriptions = {}
          /\ ~isStarted /\ ~running

\* a second startManager in a row on a coordinator with MQTT enabled
SecondStart == op = "startManager" /\ repeat >= 2 /\ mqttClient

\* C18: startManager connects the MQTT client and subscribes to exactly the
\* actuator-command and management-status-command resources when MQTT is
\* enabled, and starts the system performance manager and the sensor manager
\* each on its own flag: a component disabled by configuration is never
\* connected, subscribed or started, and the others start without it.
C18_ComponentsStartIndependently ==
    /\ op = "startManager" =>
          /\ MqttSteps = IF mqttClient
                         THEN <<Step("mqttClient", "connectClient", ""),
                                Step("mqttClient", "subscribeToTopic",
                                     CDA_ACTUATOR_CMD_RESOURCE),
                                Step("mqttClient", "subscribeToTopic",
                                     CDA_MGMT_STATUS_CMD_RESOURCE)>>
                         ELSE << >>
          /\ connection = CS_CONNECTED =>
                subscriptions = {CDA_ACTUATOR_CMD_RESOURCE, CDA_MGMT_STATUS_CMD_RESOURCE}
          /\ Cardinality(StepsOf({"sysPerfMgr"}, {"startManager"})) =
                IF sysPerfMgr THEN 1 ELSE 0
          /\ Cardinality(StepsOf({"sensorAdapterMgr"}, {"startManager"})) =
                IF sensorAdapterMgr THEN 1 ELSE 0
          /\ isStarted = sysPerfMgr
          /\ running = sensorAdapterMgr
    /\ ~mqttClient => (connection = CS_NEW /\ subscriptions = {})
    /\ ~sysPerfMgr => ~isStarted
    /\ ~sensorAdapterMgr => ~running

\* a start with the system performance manager disabled: the MQTT client is
\* connected and subscribed and the sensor manager runs
C18_Witness ==
    /\ op = "startManager"
    /\ mqttClient /\ ~sysPerfMgr /\ sensorAdapterMgr
    /\ connection = CS_CONNECTED
    /\ Cardinality(subscriptions) = 2
    /\ running /\ ~isStarted

(***************************************************************************)
(* Properties of the upstream relay (Spec).                                *)
(***************************************************************************)
IngestOps ==
    {"handleSensorMessage", "handleSystemPerformanceMessage",
     "handleActuatorCommandResponse"}

\* the resource of the kind of reading the operation ingests
IngestResource ==
    CASE op = "handleSensorMessage"            -> CDA_SENSOR_MSG_RESOURCE
      [] op = "handleSystemPerformanceMessage" -> CDA_SYSTEM_PERF_MSG_RESOURCE
      [] op = "handleActuatorCommandResponse"  -> CDA_ACTUATOR_RESPONSE_MSG_RESOURCE

\* the lookup of the cache the operation writes
IngestLookup(name) ==
    CASE op = "handleSensorMessage"            -> getLatestSensorDataFromCache(name)
      [] op = "handleSystemPerformanceMessage" -> getLatestSystemPerformanceDataFromCache(name)
      [] op = "handleActuatorCommandResponse"  -> getLatestActuatorDataResponseFromCache(name)

\* C19: with an MQTT client configured, every successful ingest makes exactly
\* one publish attempt, carrying the serialized reading on the resource of
\* its kind (sensor reading, performance reading, actuator response), and a
\* rejected (null) ingest makes none.
C19_OnePublishPerIngest ==
    (mqttClient /\ op \in IngestOps) =>
        /\ ret = RetTrue =>
              /\ Len(published) = 1
              /\ published[1].resource = IngestResource
              /\ published[1].msg = _generateJsonData(arg)
        /\ ret = RetFalse => (arg = None /\ published = << >>)
        /\ ret \in {RetTrue, RetFalse}

\* a performance reading ingested and relayed on the performance resource
C19_Witness ==
    /\ mqttClient
    /\ op = "handleSystemPerformanceMessage"
    /\ ret = RetTrue
    /\ Len(published) = 1
    /\ published[1].resource = CDA_SYSTEM_PERF_MSG_RESOURCE
    /\ published[1].msg.text.cpuUtil = arg.cpuUtil

\* C20: with neither the MQTT nor the CoAP client configured, every ingest
\* of a reading still returns True and makes no transport call, and a named
\* reading is in the cache afterwards; nothing is raised.
C20_NoTransportStillIngests ==
    (~mqttClient /\ op \in IngestOps /\ arg # None) =>
        /\ ret = RetTrue
        /\ published = << >>
        /\ \A i \in DOMAIN steps : steps[i].target \notin {"mqttClient", "coapClient", "mc"}
        /\ Truthy(arg.name) => IngestLookup(arg.name) = arg

\* a named sensor reading ingested without any transport configured
C20_Witness ==
    /\ ~mqttClient
    /\ op = "handleSensorMessage"
    /\ arg # None
    /\ Truthy(arg.name)
    /\ ret = RetTrue
    /\ getLatestSensorDataFromCache(arg.name) = arg
    /\ published = << >>

(***************************************************************************)
(* Properties of the relay under transport failure (SpecRelay).            *)
(***************************************************************************)
\* the call made a publish attempt and the client, having no connection,
\* returned False for it
PublishFailed ==
    /\ published # << >>
    /\ \A i \in DOMAIN published, acked \in BOOLEAN :
          publishMessage(published[i].resource, published[i].msg, acked) = RetFalse

\* C21: the result of an ingest reflects ingestion, not transmission: for a
\* non-null reading the three ingest operations return True and leave the
\* reading cached whether the publish attempt succeeds or fails, and a failed
\* publish is not retried (one attempt per ingest with a client configured).
C21_IngestNotTransmission ==
    (op \in IngestOps /\ arg # None) =>
        /\ ret = RetTrue
        /\ Truthy(arg.name) => IngestLookup(arg.name) = arg
        /\ Len(published) = IF mqttClient THEN 1 ELSE 0

\* a sensor reading ingested while the client is disconnected: the publish
\* failed, the reading is cached and the call returned True
C21_Witness ==
    /\ op = "handleSensorMessage"
    /\ arg # None
    /\ connection = CS_DISCONNECTED
    /\ PublishFailed
    /\ ret = RetTrue
    /\ getLatestSensorDataFromCache(arg.name) = arg

(***************************************************************************)
(* Properties of handleIncomingMessage (SpecCmd).                          *)
(***************************************************************************)
\* C22: handleIncomingMessage with an empty or null payload returns False,
\* performs no decode, dispatches no actuator command and changes no cache;
\* with a payload that is the encoding of an actuator command it hands
\* exactly that command to sendActuatorCommand, exactly once.
C22_EmptyPayloadRejected ==
    [][op' = "handleIncomingMessage" =>
          IF ~TruthyText(arg'.msg)
          THEN /\ ret' = RetFalse
               /\ steps' = << >>
               /\ sent' = << >>
               /\ invoked' = << >>
               /\ UNCHANGED caches
          ELSE /\ ret' = RetTrue
               /\ Len(sent') <= 1
               /\ \A c \in InboundCommands :
                     arg'.msg = actuatorDataToJson(c) => sent' = <<c>>
               /\ UNCHANGED caches]_vars

\* an empty payload arrived while the caches held a reading and a response
C22_Witness ==
    /\ op = "handleIncomingMessage"
    /\ ~TruthyText(arg.msg)
    /\ ret = RetFalse
    /\ DOMAIN latestSensorDataCache # {}
    /\ DOMAIN latestActuatorDataCache # {}


(***************************************************************************)
(* Codec claims                                                            *)
(***************************************************************************)
DecodeOps == {"jsonToSensorData", "jsonToActuatorData", "jsonToSystemPerformanceData"}

EncodeOps == {"sensorDataToJson", "actuatorDataToJson", "systemPerformanceDataToJson"}

\* a non-empty text that is not a well-formed JSON object
NotAnObject(t) == t \in {Malformed, JsonNumber, JsonArray}

\* C23: a decoder given a non-empty text that is not a well-formed JSON
\* object returns None to its caller and raises nothing.
C23_MalformedDecodesToNone ==
    (op \in DecodeOps /\ NotAnObject(arg)) => ret = None


\* the decoder that reads what an encoder wrote
DecodeOf(encoder, text) ==
    CASE encoder = "sensorDataToJson"            -> jsonToSensorData(text)
      [] encoder = "actuatorDataToJson"          -> jsonToActuatorData(text)
      [] encoder = "systemPerformanceDataToJson" -> jsonToSystemPerformanceData(text)

\* C24: for every record of the three kinds, string fields with an
\* apostrophe or the words True / False included, decoding the text that
\* encoding produced gives a record equal to it field by field.
C24_RoundTrip ==
    (op \in EncodeOps /\ arg # None) => DecodeOf(op, ret) = arg


\* the record a decoder starts from
FreshOf(decoder) ==
    CASE decoder = "jsonToSensorData"            -> DefaultSensorData
      [] decoder = "jsonToActuatorData"          -> ActuatorData(DEFAULT_ACTUATOR_TYPE)
      [] decoder = "jsonToSystemPerformanceData" -> DefaultSystemPerformanceData

\* C25: decoding a well-formed JSON object gives the target record with
\* exactly the keys it shares with the object set from the object, every
\* other key of the object ignored and every other field at its default;
\* encoding None gives the empty text and decoding None or the empty text
\* gives None, with no error.
C25_PermissiveDecode ==
    /\ (op \in DecodeOps /\ arg \in ObjectTexts) =>
           /\ ret # Raised
           /\ ret # None
           /\ DOMAIN ret = DOMAIN FreshOf(op)
           /\ \A f \in DOMAIN ret :
                  ret[f] = IF f \in DOMAIN arg.text THEN arg.text[f] ELSE FreshOf(op)[f]
    /\ (op \in EncodeOps /\ arg = None) => ret = EmptyText
    /\ (op \in DecodeOps /\ arg \in {None, EmptyText}) => ret = None


(***************************************************************************)
(* Thread claims                                                           *)
(***************************************************************************)
\* the cache entries some worker thread is inside handleSensorMessage for
EntriesUnderIngest ==
    {e.readings[e.idx].name : e \in {x \in BagToSet(executing[SensorJob]) : x.pc = "inside"}}

\* the number of worker threads inside handleSensorMessage for an entry
ThreadsInside(name) ==
    LET inside == [e \in {x \in BagToSet(executing[SensorJob]) :
                             x.pc = "inside" /\ x.readings[x.idx].name = name}
                      |-> CopiesIn(e, executing[SensorJob])]
    IN  BagCardinality(inside)

\* C26: at any time at most one thread is inside a cache-mutating ingest
\* operation for a given cache entry.
C26_CacheMutationsSerialized ==
    \A name \in EntriesUnderIngest : ThreadsInside(name) <= 1


RECURSIVE QueuedRuns(_, _)
\* the run times the executions in es still have to serve after the one
\* they are serving
QueuedRuns(es, bag) ==
    IF es = {} THEN 0
    ELSE LET e == CHOOSE x \in es : TRUE IN
         CopiesIn(e, bag) * (e.runs - 1) + QueuedRuns(es \ {e}, bag)

\* the runs of a job that are owed for firings already passed
PendingRuns(job) ==
    RunTimes(job, due[job]) + QueuedRuns(BagToSet(executing[job]), executing[job])

\* C27: of each interval job at most 2 executions run at the same time, and
\* the firings missed meanwhile are coalesced, so that never more than one
\* run is pending.
C27_BoundedOverlapCoalesced ==
    \A job \in Jobs :
        /\ BagCardinality(executing[job]) <= 2
        /\ PendingRuns(job) <= 1

\* two executions of the sensor job are running and further firings have
\* been missed
C27_Witness ==
    /\ BagCardinality(executing[SensorJob]) = 2
    /\ due[SensorJob] > 1


\* the sensor scheduler is stopped and no call of stopManager is under way:
\* stopManager has returned and startManager was not called since
Stopped == mainThread = "idle" /\ ~running

\* a worker thread that is inside handleSensorMessage in this state is still
\* inside it, or has returned from it, in the next
IngestNotInterrupted ==
    \A e \in BagToSet(executing[SensorJob]) :
        e.pc = "inside" =>
            \/ CopiesIn(e, executing'[SensorJob]) >= CopiesIn(e, executing[SensorJob])
            \/ /\ op' = "handleSensorMessage"
               /\ arg' = e.readings[e.idx]
               /\ ret' = RetTrue
               /\ getLatestSensorDataFromCache(arg'.name) # None
               /\ published' = _handleUpstreamTransmission(CDA_SENSOR_MSG_RESOURCE,
                                                           sensorDataToJson(arg'))

\* C28: once stopManager has returned no execution of the telemetry job is
\* running or begins and no run time is left to start one, and an ingest in
\* progress while stopManager runs is carried through to its return.
C28_StopOnlyPreventsFutureFirings ==
    /\ [](Stopped => /\ BagCardinality(executing[SensorJob]) = 0
                     /\ due[SensorJob] = 0)
    /\ [][IngestNotInterrupted]_vars

\* stopManager is waiting for the sensor scheduler while a worker thread is
\* inside handleSensorMessage
C28_Witness ==
    /\ mainThread = "stopSensor"
    /\ \E e \in BagToSet(executing[SensorJob]) : e.pc = "inside"


(***************************************************************************)
(* Failure claims                                                          *)
(***************************************************************************)
\* C29: a backend that fails while it is polled costs the firing only its
\* own reading: the readings of the other backends are forwarded to the
\* coordinator, and no exception leaves handleTelemetry.
C29_FailureDropsOneReading ==
    op = "SensorAdapterManager.handleTelemetry" =>
        /\ ret = None
        /\ \A i \in DOMAIN arg.polled :
               arg.polled[i] # Raised =>
                   \E j \in DOMAIN forwarded : forwarded[j].name = arg.polled[i].name


\* the coordinator was just constructed in emulator mode and the load of
\* an actuator emulator raised
ActuatorLoadFailed == op = "__init__" /\ arg.useEmulator /\ arg.failAt > 0

\* the same for the load of a sensor emulator
SensorLoadFailed ==
    op = "__init__" /\ sensorAdapterMgr /\ arg.useEmulator /\ arg.sensorFailAt > 0

\* C30: when the load of an emulated backend fails, at whichever of the
\* three modules, construction ends with the simulated HVAC and humidifier
\* actuators and the simulated humidity, pressure and temperature sensors;
\* the backends are never partly absent, and an accepted HVAC command
\* always reaches a backend.
C30_BackendFallback ==
    /\ ActuatorLoadFailed =>
           hvacActuator = SimTask /\ humidifierActuator = SimTask
    /\ SensorLoadFailed =>
           /\ humidityAdapter = SimTask
           /\ pressureAdapter = SimTask
           /\ tempAdapter = SimTask
    /\ hvacActuator # NoTask
    /\ humidifierActuator # NoTask
    /\ hvacActuator = humidifierActuator
    /\ sensorAdapterMgr =>
           /\ humidityAdapter # NoTask
           /\ humidityAdapter = pressureAdapter
           /\ pressureAdapter = tempAdapter
    /\ (op = "sendActuatorCommand" /\ arg # None /\ ~arg.isResponse
           /\ arg.locationID = locationID /\ arg.typeID = HVAC_ACTUATOR_TYPE)
       => invoked = <<BackendCall("hvacActuator", arg)>>

\* the second actuator emulator and the third sensor emulator failed to load
C30_Witness ==
    /\ ActuatorLoadFailed
    /\ arg.failAt = 2
    /\ SensorLoadFailed
    /\ arg.sensorFailAt = 3
    /\ hvacActuator = SimTask
    /\ tempAdapter = SimTask


(***************************************************************************)
(* Subscription claims                                                     *)
(***************************************************************************)
\* the call made in this step is subscribeToTopic
Subscribing == op' = "subscribeToTopic" /\ <<op, arg, repeat>> # <<op', arg', repeat'>>

\* C32: a successful subscribeToTopic leaves the resource in the set of
\* active subscriptions, and subscribing to a resource that is already
\* subscribed returns True, changes nothing in the set and sends no second
\* subscription to the broker.
C32_SubscriptionBookkeeping ==
    [][Subscribing =>
          /\ ret' = RetTrue => arg'.resource \in subscriptions'
          /\ arg'.resource \in subscriptions =>
                /\ ret' = RetTrue
                /\ subscriptions' = subscriptions
                /\ \A i \in DOMAIN steps' : steps'[i].call # "subscribe"]_vars


(***************************************************************************)
(* Ordering and frame claims                                               *)
(***************************************************************************)
CacheWrites   == StepsOf({"latestSensorDataCache"}, {"__setitem__"})
Dispatches    == StepsOf({"actuatorAdapterMgr"}, {"sendActuatorCommand"})
BackendUpdates ==
    StepsOf({"humidifierActuator", "hvacActuator", "ledDisplayActuator"}, {"updateActuator"})
Publishes     == StepsOf({"mqttClient"}, {"publishMessage"})

\* C33: in a handleSensorMessage call on a temperature reading the rule
\* applies to, the cache is written before the command is dispatched, the
\* dispatch and the backend call precede the publish attempt, and all of
\* them have happened when the call returns.
C33_IngestOrder ==
    (op = "handleSensorMessage" /\ arg # None /\ sent # << >>) =>
        /\ ret = RetTrue
        /\ getLatestSensorDataFromCache(arg.name) = arg
        /\ Cardinality(CacheWrites) = 1
        /\ Cardinality(Dispatches) = 1
        /\ Cardinality(BackendUpdates) = Len(invoked)
        /\ Cardinality(Publishes) = Len(published)
        /\ Before(CacheWrites, Dispatches)
        /\ Before(Dispatches, BackendUpdates)
        /\ Before(Dispatches \cup BackendUpdates, Publishes)

\* a reading above the ceiling was cached, dispatched to the HVAC backend and
\* published
C33_Witness ==
    /\ op = "handleSensorMessage"
    /\ arg # None
    /\ arg.value > triggerHvacTempCeiling
    /\ Len(sent) = 1
    /\ Len(invoked) = 1
    /\ Len(published) = 1
    /\ Len(steps) = 4


\* the entries of a cache other than the one under the name of the call's
\* argument are the same after the step
OthersKept(before, after) ==
    /\ DOMAIN before \subseteq DOMAIN after
    /\ \A n \in DOMAIN after :
          (arg' = None \/ n # arg'.name) => (n \in DOMAIN before /\ after[n] = before[n])

LookupOps ==
    {"getLatestSensorDataFromCache", "getLatestActuatorDataResponseFromCache",
     "getLatestSystemPerformanceDataFromCache"}

\* C35: each ingest operation changes at most the entry of its own cache under
\* the name of the data it was given; every other entry and the two other
\* caches are unchanged; the cache lookups change no cache.
C35_IngestFrame ==
    [][/\ op' = "handleSensorMessage" =>
            /\ OthersKept(latestSensorDataCache, latestSensorDataCache')
            /\ UNCHANGED <<latestActuatorDataCache, latestSystemPerfDataCache>>
       /\ op' = "handleSystemPerformanceMessage" =>
            /\ OthersKept(latestSystemPerfDataCache, latestSystemPerfDataCache')
            /\ UNCHANGED <<latestSensorDataCache, latestActuatorDataCache>>
       /\ op' = "handleActuatorCommandResponse" =>
            /\ OthersKept(latestActuatorDataCache, latestActuatorDataCache')
            /\ UNCHANGED <<latestSensorDataCache, latestSystemPerfDataCache>>
       /\ op' \in LookupOps => UNCHANGED <<caches, config, lifecycle>>]_vars

\* a reading was stored next to another sensor's entry while the other two
\* caches hold entries
C35_Witness ==
    /\ op = "handleSensorMessage"
    /\ arg # None
    /\ getLatestSensorDataFromCache(arg.name) = arg
    /\ Cardinality(DOMAIN latestSensorDataCache) = 2
    /\ DOMAIN latestActuatorDataCache # {}
    /\ DOMAIN latestSystemPerfDataCache # {}


\* the call in progress is handleSensorMessage on a reading without a name
UnnamedReading ==
    /\ op = "handleSensorMessage"
    /\ arg # None
    /\ ~Truthy(arg.name)

\* C37: a reading whose name is empty or null is not put into the sensor
\* cache, yet handleSensorMessage applies the control rule to it, attempts
\* the upstream publish and returns True.
C37_UnnamedReadingHandled ==
    UnnamedReading =>
        /\ ret = RetTrue
        /\ arg.name \notin DOMAIN latestSensorDataCache
        /\ \A n \in DOMAIN latestSensorDataCache : latestSensorDataCache[n] # arg
        /\ QualifyingCall =>
              /\ Len(sent) = 1
              /\ sent[1].command = RuleCommand(arg.value)
              /\ sent[1].value = RuleValue(arg.value)
        /\ mqttClient =>
              published = <<[resource |-> CDA_SENSOR_MSG_RESOURCE,
                             msg |-> sensorDataToJson(arg)]>>

\* a temperature reading without a name switched the HVAC on and was
\* published while the cache holds other readings only
C37_Witness ==
    /\ UnnamedReading
    /\ arg.name = ""
    /\ Len(sent) = 1
    /\ sent[1].command = COMMAND_ON
    /\ Len(invoked) = 1
    /\ Len(published) = 1
    /\ latestSensorDataCache # << >>


(***************************************************************************)
(* Inbound message claims                                                  *)
(***************************************************************************)
\* what handleIncomingMessage does with the payload of the call in progress
\* when it arrives on the actuator command resource
OnCommandResource(status) ==
    handleIncomingMessage(CDA_ACTUATOR_CMD_RESOURCE, arg.msg, status)

\* C38: handleIncomingMessage does not look at the resource: whatever the
\* resource, the command handed to sendActuatorCommand, the backend calls and
\* the return value are those of the same payload on the actuator command
\* resource.
C38_ResourceIgnored ==
    op = "handleIncomingMessage" =>
        \E status \in StatusCodes :
            /\ ret = OnCommandResource(status).ret
            /\ sent = OnCommandResource(status).sent
            /\ invoked = OnCommandResource(status).calls

\* a command that arrived on the management status resource was executed
C38_Witness ==
    /\ op = "handleIncomingMessage"
    /\ arg.resource = CDA_MGMT_STATUS_CMD_RESOURCE
    /\ Len(sent) = 1
    /\ Len(invoked) = 1
    /\ invoked[1].data.command = COMMAND_ON

C39_RejectedWitness ==
    /\ op = "handleIncomingMessage"
    /\ Len(sent) = 1
    /\ sent[1].isResponse
    /\ invoked = << >>
    /\ ret = RetTrue


(***************************************************************************)
(* CoAP connector claims                                                   *)
(***************************************************************************)
SendOps == {SendOp(m) : m \in RequestMethods}

\* the call in progress is a send method with a resource and, for POST and
\* PUT, a non-empty payload
ValidRequest ==
    /\ op \in SendOps
    /\ op # "sendDiscoveryRequest" => Truthy(arg.resource)
    /\ op \in {"sendPostRequest", "sendPutRequest"} => TruthyText(arg.payload)

\* C31: a send method given a valid request makes one call on the client,
\* returns True when that call did not raise, whatever the response (none
\* included), and returns False, raising nothing, when it raised.
C31_BestEffortRequest ==
    ValidRequest =>
        /\ Len(steps) = 1
        /\ steps[1].target = "coapClient"
        /\ SendOp(steps[1].call) = op
        /\ ret \in {RetTrue, RetFalse}
        /\ ret = RetTrue <=> (coapClient /\ ~arg.raises)

\* a POST that got no response was reported as sent
C31_Witness ==
    /\ ValidRequest
    /\ op = "sendPostRequest"
    /\ ~arg.raises
    /\ arg.response = None
    /\ ret = RetTrue
    /\ Len(steps) = 1

\* a GET on which the client raised was reported as failed
C31_RaisedWitness ==
    /\ ValidRequest
    /\ op = "sendGetRequest"
    /\ coapClient
    /\ arg.raises
    /\ ret = RetFalse

\* C34: a notification is forwarded to the listener only for a resource
\* whose observation was started and not stopped since, and stopObserver on
\* a resource without an active observation returns False.
C34_StoppedObserverSilent ==
    [][/\ (op' = "observeCallback" /\ delivered' # << >>) =>
              arg'.resource \in observeRequests
       /\ (op' = "stopObserver" /\ arg'.resource \notin observeRequests) =>
              ret' = RetFalse]_vars


(***************************************************************************)
(* Overlap and liveness claims                                             *)
(***************************************************************************)
\* C36: when no execution of the sensor telemetry job is running any more,
\* the HVAC command the backend executed last is the one the control rule
\* derives from the temperature reading held in the sensor cache.
C36_ActuationFollowsCache ==
    (/\ BagCardinality(executing[SensorJob]) = 0
     /\ op = "handleSensorMessage"
     /\ arg.typeID = TEMP_SENSOR_TYPE
     /\ Len(invoked) = 1)
    => /\ invoked[1].data.command =
             RuleCommand(getLatestSensorDataFromCache(TEMP_SENSOR_NAME).value)
       /\ invoked[1].data.value =
             RuleValue(getLatestSensorDataFromCache(TEMP_SENSOR_NAME).value)


\* the job function of a firing has been called and has not polled yet
Fired == \E e \in BagToSet(executing[SensorJob]) : e.pc = "start"

SensorNames == {HUMIDITY_SENSOR_NAME, PRESSURE_SENSOR_NAME, TEMP_SENSOR_NAME}

\* the sensor cache holds, for each of the three sensors, a reading of the
\* k-th poll or of a later one
CacheHolds(k) ==
    \A n \in SensorNames :
        /\ n \in DOMAIN latestSensorDataCache
        /\ latestSensorDataCache[n].value >= k

\* handleSensorMessage has returned for the temperature reading of the k-th
\* poll or of a later one, having dispatched a command
Dispatched(k) ==
    /\ op = "handleSensorMessage"
    /\ arg.typeID = TEMP_SENSOR_TYPE
    /\ arg.value >= k
    /\ Len(sent) = 1
    /\ sent[1].command = RuleCommand(arg.value)

====
